---- MODULE Spec2Model ----
(***************************************************************************)
(* Model of the quantitative core of the pharmacy invoice dashboard:       *)
(*   - src/src/lib/projections.ts : generateProjections and its helpers    *)
(*   - src/unnamed/part_000 (lib/db): alerts, detectAnomalies,             *)
(*     getReorderRecommendations                                           *)
(*                                                                         *)
(* JavaScript numbers are modelled as exact values q + c*sqrt(v) with      *)
(* rational q, c, v, together with the special values NaN, +Infinity and   *)
(* -Infinity.  Rounding of IEEE doubles is not modelled; every division by *)
(* zero, every operation on NaN/Infinity, `x || 0` and Math.max follow the *)
(* JavaScript rules.                                                       *)
(***************************************************************************)
EXTENDS Integers, Sequences, FiniteSets, Bags, TLC

VARIABLES
    historicalData,    \* rows returned by getSpendByPeriod: <<[period, total]>>
    periodType,        \* "week" | "month" | "year"
    periodsToProject,  \* requested horizon
    pcProj,            \* "idle" before the call, "done" after it returned,
                       \* "again" after a second call returned
    projResult,        \* ProjectionResult returned by generateProjections
    line_items,        \* table line_items: bag of [product_name, quantity, invoice_date]
    alerts,            \* table alerts, in id order: <<[id, type, product_name, ...]>>
    now,               \* wall clock, in ticks (TicksPerDay ticks per day)
    detectRuns,        \* number of completed detectAnomalies runs
    recommendations,   \* last list returned by getReorderRecommendations
    pcReorder,         \* "idle" | "done"
    statData,          \* argument `data` of a helper of projections.ts
    statWindow,        \* argument `window` of movingAverage
    statAlpha,         \* argument `alpha` of exponentialSmoothing
    statResult,        \* the array the helper returned
    pcStat,            \* "idle" | "movingAverage" | "exponentialSmoothing"
    runs,              \* concurrent detectAnomalies calls: [pc, rows, index] each
    upload_history,    \* table upload_history, in id order
    invoices,          \* table invoices, in id order
    pharmacies,        \* table pharmacies, in id order: <<[id, name]>>
    request,           \* the upload request: [form, parse, rows]
    upload,            \* the upload handler: its position, locals and response
    calls              \* concurrent getOrCreatePharmacy calls: [pc, name, id] each

projVars == <<historicalData, periodType, periodsToProject, pcProj, projResult>>
dbVars == <<line_items, alerts, now, detectRuns>>
reorderVars == <<recommendations, pcReorder>>
statVars == <<statData, statWindow, statAlpha, statResult, pcStat>>
uploadVars == <<upload_history, invoices, pharmacies, request, upload, calls>>
extraVars == <<statVars, runs, uploadVars>>
vars == <<historicalData, periodType, periodsToProject, pcProj, projResult,
          line_items, alerts, now, detectRuns, recommendations, pcReorder,
          statData, statWindow, statAlpha, statResult, pcStat, runs,
          upload_history, invoices, pharmacies, request, upload, calls>>

(***************************************************************************)
(* Exact rationals [n, d] in lowest terms, d > 0.                          *)
(***************************************************************************)
Abs(x) == IF x < 0 THEN -x ELSE x

Sgn(x) == IF x < 0 THEN -1 ELSE IF x = 0 THEN 0 ELSE 1

RECURSIVE GCD(_, _)
GCD(a, b) == IF b = 0 THEN a ELSE GCD(b, a % b)

\* n / d for a common divisor g of n and d
Reduce(n, d, g) == [n |-> n \div g, d |-> d \div g]

\* n / d in lowest terms, d # 0
Rat(n, d) == Reduce(Sgn(d) * n, Abs(d), GCD(Abs(n), Abs(d)))

RInt(i) == [n |-> i, d |-> 1]

RZero == RInt(0)

ROne == RInt(1)

RNeg(x) == [n |-> -x.n, d |-> x.d]

\* x + y over the denominator x.d * y.d / g, g the gcd of the denominators
RAddOver(x, y, g) == Rat(x.n * (y.d \div g) + y.n * (x.d \div g), (x.d \div g) * y.d)

RAdd(x, y) == RAddOver(x, y, GCD(x.d, y.d))

RSub(x, y) == RAdd(x, RNeg(y))

\* x * y, cancelling g1 = gcd(x.n, y.d) and g2 = gcd(y.n, x.d) first
RMulOver(x, y, g1, g2) ==
    [n |-> (x.n \div g1) * (y.n \div g2), d |-> (x.d \div g2) * (y.d \div g1)]

RMul(x, y) == RMulOver(x, y, GCD(Abs(x.n), y.d), GCD(Abs(y.n), x.d))

\* x / y for y # 0
RDiv(x, y) == RMul(x, Rat(y.d, y.n))

RSign(x) == Sgn(x.n)

RLt(x, y) == RSign(RSub(x, y)) < 0

(***************************************************************************)
(* Naturals of unbounded size, little-endian in base BigBase, used only to *)
(* decide the sign of q + c*sqrt(v) by comparing q^2 with c^2 * v.         *)
(***************************************************************************)
BigBase == 10 * 10 * 10

RECURSIVE BigOf(_)
BigOf(n) == IF n = 0 THEN <<>> ELSE <<n % BigBase>> \o BigOf(n \div BigBase)

RECURSIVE BigCarry(_, _)
BigCarry(raw, carry) ==
    IF raw = <<>>
    THEN BigOf(carry)
    ELSE LET t == Head(raw) + carry
         IN  <<t % BigBase>> \o BigCarry(Tail(raw), t \div BigBase)

RECURSIVE BigTrim(_)
BigTrim(a) ==
    IF a # <<>> /\ a[Len(a)] = 0 THEN BigTrim(SubSeq(a, 1, Len(a) - 1)) ELSE a

RECURSIVE BigColumn(_, _, _, _)
BigColumn(a, b, k, i) ==
    IF i > Len(a) \/ i > k
    THEN 0
    ELSE (IF k - i + 1 <= Len(b) THEN a[i] * b[k - i + 1] ELSE 0)
         + BigColumn(a, b, k, i + 1)

BigMul(a, b) ==
    IF a = <<>> \/ b = <<>>
    THEN <<>>
    ELSE BigTrim(BigCarry([k \in 1..(Len(a) + Len(b) - 1) |-> BigColumn(a, b, k, 1)], 0))

RECURSIVE BigCmpFrom(_, _, _)
BigCmpFrom(a, b, i) ==
    IF i = 0 THEN 0
    ELSE IF a[i] # b[i] THEN Sgn(a[i] - b[i])
    ELSE BigCmpFrom(a, b, i - 1)

\* -1, 0, 1 as a < b, a = b, a > b (both trimmed)
BigCmp(a, b) ==
    IF Len(a) # Len(b) THEN Sgn(Len(a) - Len(b)) ELSE BigCmpFrom(a, b, Len(a))

\* the product of a sequence of naturals
RECURSIVE BigProduct(_)
BigProduct(ns) ==
    IF ns = <<>> THEN <<1>> ELSE BigMul(BigOf(Head(ns)), BigProduct(Tail(ns)))

\* sign of q + c*sqrt(v), v >= 0: q^2 against c^2 * v when q and c differ in sign
SurdSign(q, c, v) ==
    IF RSign(c) = 0 \/ RSign(v) = 0 THEN RSign(q)
    ELSE IF RSign(q) = 0 \/ RSign(q) = RSign(c) THEN RSign(c)
    ELSE BigCmp(BigProduct(<<Abs(q.n), Abs(q.n), c.d, c.d, v.d>>),
                BigProduct(<<Abs(c.n), Abs(c.n), q.d, q.d, v.n>>)) * RSign(q)

(***************************************************************************)
(* JavaScript numbers.                                                     *)
(***************************************************************************)
Fin(q) == [k |-> "fin", q |-> q, c |-> RZero, v |-> RZero]

Surd(q, c, v) ==
    IF RSign(c) = 0 \/ RSign(v) = 0 THEN Fin(q) ELSE [k |-> "fin", q |-> q, c |-> c, v |-> v]

NaN == [k |-> "nan", q |-> RZero, c |-> RZero, v |-> RZero]

PosInf == [k |-> "+inf", q |-> RZero, c |-> RZero, v |-> RZero]

NegInf == [k |-> "-inf", q |-> RZero, c |-> RZero, v |-> RZero]

Undefined == [k |-> "undefined", q |-> RZero, c |-> RZero, v |-> RZero]

JsInt(i) == Fin(RInt(i))

JsDec(n, d) == Fin(Rat(n, d))

IsFinite(x) == x.k = "fin"

IsNaN(x) == x.k = "nan"

\* -1, 0, 1 for a number that is not NaN
JsSign(x) ==
    IF x.k = "+inf" THEN 1
    ELSE IF x.k = "-inf" THEN -1
    ELSE SurdSign(x.q, x.c, x.v)

\* the radicand shared by two finite operands
JoinRad(x, y) == IF RSign(x.c) # 0 THEN x.v ELSE y.v

JsNeg(x) ==
    IF x.k = "fin" THEN [x EXCEPT !.q = RNeg(x.q), !.c = RNeg(x.c)]
    ELSE IF x.k = "+inf" THEN NegInf
    ELSE IF x.k = "-inf" THEN PosInf
    ELSE x

JsAdd(x, y) ==
    IF IsNaN(x) \/ IsNaN(y) THEN NaN
    ELSE IF IsFinite(x) /\ IsFinite(y)
         THEN Surd(RAdd(x.q, y.q), RAdd(x.c, y.c), JoinRad(x, y))
    ELSE IF IsFinite(x) THEN y
    ELSE IF IsFinite(y) THEN x
    ELSE IF x.k = y.k THEN x
    ELSE NaN

JsSub(x, y) == JsAdd(x, JsNeg(y))

\* the infinity of sign s; 0 * Infinity is NaN
InfOfSign(s) == IF s = 0 THEN NaN ELSE IF s > 0 THEN PosInf ELSE NegInf

\* (x.q + x.c*sqrt(v)) * (y.q + y.c*sqrt(v))
JsMulFinite(x, y, v) ==
    Surd(RAdd(RMul(x.q, y.q), RMul(RMul(x.c, y.c), v)),
         RAdd(RMul(x.q, y.c), RMul(x.c, y.q)), v)

JsMul(x, y) ==
    IF IsNaN(x) \/ IsNaN(y) THEN NaN
    ELSE IF IsFinite(x) /\ IsFinite(y) THEN JsMulFinite(x, y, JoinRad(x, y))
    ELSE InfOfSign(JsSign(x) * JsSign(y))

\* x / y; the divisors of the program are never negative zero
\* num / den for a rational den # 0
JsDivRational(num, den, v) == Surd(RDiv(num.q, den), RDiv(num.c, den), v)

\* x / y for a finite y, sx and sy the signs of x and y; a surd divisor is
\* removed by its conjugate
JsDivSigned(x, y, sx, sy) ==
    IF sy = 0 THEN (IF sx = 0 THEN NaN ELSE InfOfSign(sx))
    ELSE IF ~IsFinite(x) THEN InfOfSign(sx * sy)
    ELSE IF RSign(y.c) = 0 THEN JsDivRational(x, y.q, x.v)
    ELSE JsDivRational(JsMul(x, [y EXCEPT !.c = RNeg(y.c)]),
                       RSub(RMul(y.q, y.q), RMul(RMul(y.c, y.c), y.v)), y.v)

JsDiv(x, y) ==
    IF IsNaN(x) \/ IsNaN(y) THEN NaN
    ELSE IF ~IsFinite(y)
         THEN IF IsFinite(x) THEN JsInt(0) ELSE NaN
    ELSE JsDivSigned(x, y, JsSign(x), JsSign(y))

\* x ** e for an integer e >= 1
RECURSIVE JsPow(_, _)
JsPow(x, e) == IF e = 1 THEN x ELSE JsMul(x, JsPow(x, e - 1))

\* x || 0 : NaN and 0 are falsy
JsOrZero(x) == IF IsNaN(x) THEN JsInt(0) ELSE IF JsSign(x) = 0 THEN JsInt(0) ELSE x

\* x < y, x > y, x !== y : false as soon as an operand is NaN (except !==)
JsLt(x, y) ==
    /\ ~IsNaN(x)
    /\ ~IsNaN(y)
    /\ IF IsFinite(x) /\ IsFinite(y) THEN JsSign(JsSub(x, y)) < 0
       ELSE x.k # y.k /\ (x.k = "-inf" \/ y.k = "+inf")

JsGt(x, y) == JsLt(y, x)

JsLe(x, y) == ~IsNaN(x) /\ ~IsNaN(y) /\ ~JsLt(y, x)

JsEq(x, y) == ~IsNaN(x) /\ ~IsNaN(y) /\ ~JsLt(x, y) /\ ~JsLt(y, x)

\* Math.max(x, y), Math.min(x, y) : NaN if an operand is NaN
JsMax(x, y) == IF IsNaN(x) \/ IsNaN(y) THEN NaN ELSE IF JsLt(x, y) THEN y ELSE x

JsMin(x, y) == IF IsNaN(x) \/ IsNaN(y) THEN NaN ELSE IF JsLt(y, x) THEN y ELSE x

\* Math.sqrt(x) for a rational x
JsSqrt(x) ==
    IF IsNaN(x) THEN NaN
    ELSE IF JsSign(x) < 0 THEN NaN
    ELSE IF x.k = "+inf" THEN PosInf
    ELSE Surd(RZero, ROne, x.q)

(***************************************************************************)
(* projections.ts : series statistics                                      *)
(***************************************************************************)
\* data.reduce((a, b) => a + b, 0)
RECURSIVE SumFrom(_, _, _)
SumFrom(data, i, acc) ==
    IF i > Len(data) THEN acc ELSE SumFrom(data, i + 1, JsAdd(acc, data[i]))

Sum(data) == SumFrom(data, 1, JsInt(0))

JsSq(x) == JsMul(x, x)

\* x !== 0
JsNotZero(x) == IsNaN(x) \/ JsSign(x) # 0

\* Index i of the source is position i + 1 of the sequence.
\* a regression that reports a perfect fit when the data has no variance
RegressionResultPerfect(slope, intercept, ssTotal, ssResidual) ==
    [slope |-> slope,
     intercept |-> intercept,
     rSquared |-> IF JsNotZero(ssTotal)
                  THEN JsSub(JsInt(1), JsDiv(ssResidual, ssTotal))
                  ELSE JsInt(1)]

\* linearRegression, one definition per group of its constants; each takes the
\* constants computed before it.  return { slope, intercept, rSquared }
RegressionResult(slope, intercept, ssTotal, ssResidual) ==
    [slope |-> slope,
     intercept |-> intercept,
     rSquared |-> IF JsNotZero(ssTotal)
                  THEN JsSub(JsInt(1), JsDiv(ssResidual, ssTotal))
                  ELSE JsInt(0)]

\* the second loop: predicted = slope * i + intercept; ssResidual
RegressionResidual(data, slope, intercept, ssTotal) ==
    RegressionResult(slope, intercept, ssTotal,
        Sum([j \in 1..Len(data) |->
                JsSq(JsSub(data[j], JsAdd(JsMul(slope, JsInt(j - 1)), intercept)))]))

\* slope and intercept
RegressionLine(data, xMean, yMean, ssTotal, slope) ==
    RegressionResidual(data, slope, JsSub(yMean, JsMul(slope, xMean)), ssTotal)

RegressionSlope(data, xMean, yMean, numerator, denominator, ssTotal) ==
    RegressionLine(data, xMean, yMean, ssTotal,
        IF JsNotZero(denominator) THEN JsDiv(numerator, denominator) ELSE JsInt(0))

\* the first loop with x counted from 1 instead of 0
RegressionSumsOneBased(data, xMean, yMean) ==
    RegressionSlope(data, xMean, yMean,
        Sum([j \in 1..Len(data) |->
                JsMul(JsSub(JsInt(j), xMean), JsSub(data[j], yMean))]),
        Sum([j \in 1..Len(data) |-> JsSq(JsSub(JsInt(j), xMean))]),
        Sum([j \in 1..Len(data) |-> JsSq(JsSub(data[j], yMean))]))

\* the first loop: numerator, denominator, ssTotal
RegressionSums(data, xMean, yMean) ==
    RegressionSlope(data, xMean, yMean,
        Sum([j \in 1..Len(data) |->
                JsMul(JsSub(JsInt(j - 1), xMean), JsSub(data[j], yMean))]),
        Sum([j \in 1..Len(data) |-> JsSq(JsSub(JsInt(j - 1), xMean))]),
        Sum([j \in 1..Len(data) |-> JsSq(JsSub(data[j], yMean))]))

linearRegression(data) ==
    IF Len(data) < 2
    THEN [slope |-> JsInt(0),
          intercept |-> IF Len(data) = 0 THEN JsInt(0) ELSE JsOrZero(data[1]),
          rSquared |-> JsInt(0)]
    ELSE RegressionSums(data, JsDec(Len(data) - 1, 2), JsDiv(Sum(data), JsInt(Len(data))))

Max(a, b) == IF a >= b THEN a ELSE b

Min(a, b) == IF a <= b THEN a ELSE b

\* the moving average that divides by the window, also where the slice is shorter
movingAverageFullWindow(data, window) ==
    [j \in 1..Len(data) |->
        JsDiv(Sum(SubSeq(data, Max(0, (j - 1) - window + 1) + 1, j)), JsInt(window))]

movingAverage(data, window) ==
    [j \in 1..Len(data) |->
        LET start == Max(0, (j - 1) - window + 1)
            slice == SubSeq(data, start + 1, j)
        IN  JsDiv(Sum(slice), JsInt(Len(slice)))]

RECURSIVE SmoothFrom(_, _, _, _)
SmoothFrom(data, alpha, i, result) ==
    IF i > Len(data)
    THEN result
    ELSE SmoothFrom(data, alpha, i + 1,
            Append(result,
                   JsAdd(JsMul(alpha, data[i]),
                         JsMul(JsSub(JsInt(1), alpha), result[i - 1]))))

\* smoothing that starts from 0 instead of data[0]
exponentialSmoothingFromZero(data, alpha) ==
    IF Len(data) = 0 THEN <<>> ELSE SmoothFrom(data, alpha, 2, <<JsInt(0)>>)

exponentialSmoothing(data, alpha) ==
    IF Len(data) = 0 THEN <<>> ELSE SmoothFrom(data, alpha, 2, <<data[1]>>)

standardDeviation(data) ==
    IF Len(data) < 2
    THEN JsInt(0)
    ELSE LET mean == JsDiv(Sum(data), JsInt(Len(data)))
             squaredDiffs == [j \in 1..Len(data) |-> JsSq(JsSub(data[j], mean))]
         IN  JsSqrt(JsDiv(Sum(squaredDiffs), JsInt(Len(data) - 1)))

\* a call movingAverage(statData, statWindow)
MovingAverageCall ==
    /\ pcStat = "idle"
    /\ statResult' = movingAverage([j \in 1..Len(statData) |-> JsInt(statData[j])], statWindow)
    /\ pcStat' = "movingAverage"
    /\ UNCHANGED <<statData, statWindow, statAlpha>>
    /\ UNCHANGED <<projVars, dbVars, reorderVars, runs, uploadVars>>

\* a call exponentialSmoothing(statData, statAlpha)
ExponentialSmoothingCall ==
    /\ pcStat = "idle"
    /\ statResult' =
           exponentialSmoothing([j \in 1..Len(statData) |-> JsInt(statData[j])], statAlpha)
    /\ pcStat' = "exponentialSmoothing"
    /\ UNCHANGED <<statData, statWindow, statAlpha>>
    /\ UNCHANGED <<projVars, dbVars, reorderVars, runs, uploadVars>>

\* no helper is being called on its own
IdleStat ==
    /\ statData = <<>>
    /\ statWindow = 1
    /\ statAlpha = JsDec(3, 10)
    /\ statResult = <<>>
    /\ pcStat = "idle"

MaxConcurrent == 2

\* the requests that run detectAnomalies at the same time
Runs == 1..MaxConcurrent

\* no detectAnomalies call is in flight
IdleRuns == runs = [r \in Runs |-> [pc |-> "idle", rows |-> <<>>, index |-> 1]]

\* the handler before a request arrives
NoUpload ==
    [pc |-> "start", pharmacy_id |-> 0, groups |-> <<>>, itemIndex |-> 1,
     totalInvoices |-> 0, totalItems |-> 0, skippedRows |-> 0,
     failure |-> "", failureStatus |-> 0, threw |-> FALSE, response |-> 0]

\* no upload is being handled, the tables it writes are empty
IdleUpload ==
    /\ upload_history = <<>>
    /\ invoices = <<>>
    /\ pharmacies = <<>>
    /\ request = [form |-> "ok", parse |-> "ok", rows |-> <<>>]
    /\ upload = [NoUpload EXCEPT !.pc = "done"]
    /\ calls = <<>>

IdleExtra == IdleStat /\ IdleRuns /\ IdleUpload

(***************************************************************************)
(* Period labels are strings, modelled as sequences of characters.         *)
(***************************************************************************)
DigitChars == <<"0", "1", "2", "3", "4", "5", "6", "7", "8", "9">>

CharDigit(ch) == (CHOOSE d \in 1..10 : DigitChars[d] = ch) - 1

\* String(n) for an integer n >= 0
RECURSIVE String(_)
String(n) ==
    IF n < 10 THEN <<DigitChars[n + 1]>> ELSE String(n \div 10) \o <<DigitChars[(n % 10) + 1]>>

\* Number(s), parseInt(s) for a string of decimal digits
RECURSIVE Number(_)
Number(s) ==
    IF s = <<>> THEN 0 ELSE Number(SubSeq(s, 1, Len(s) - 1)) * 10 + CharDigit(s[Len(s)])

\* a padStart that pads nothing
padStartNone(s, width) == s

\* s.padStart(width, '0')
RECURSIVE padStart(_, _)
padStart(s, width) == IF Len(s) >= width THEN s ELSE padStart(<<"0">> \o s, width)

\* s.split('-')
RECURSIVE split(_)
split(s) ==
    IF \A i \in 1..Len(s) : s[i] # "-"
    THEN <<s>>
    ELSE LET i == CHOOSE j \in 1..Len(s) : s[j] = "-" /\ \A m \in 1..(j - 1) : s[m] # "-"
         IN  <<SubSeq(s, 1, i - 1)>> \o split(SubSeq(s, i + 1, Len(s)))

\* one pass of the week / month loop body: the label pushed and the counters kept
RECURSIVE StepPeriods(_, _, _, _, _)
StepPeriods(currentYear, current, last, count, periods) ==
    IF count = 0
    THEN periods
    ELSE LET inc == current + 1
             y == IF inc > last THEN currentYear + 1 ELSE currentYear
             c == IF inc > last THEN 1 ELSE inc
         IN  StepPeriods(y, c, last, count - 1,
                         Append(periods, String(y) \o <<"-">> \o padStart(String(c), 2)))

RECURSIVE StepYears(_, _, _)
StepYears(currentYear, count, periods) ==
    IF count = 0
    THEN periods
    ELSE StepYears(currentYear + 1, count - 1, Append(periods, String(currentYear + 1)))

WeeksPerYear == 52

MonthsPerYear == 12

generateFuturePeriods(lastPeriod, count, type) ==
    IF type = "week"
    THEN LET parts == split(lastPeriod)
         IN  StepPeriods(Number(parts[1]), Number(parts[2]), WeeksPerYear, count, <<>>)
    ELSE IF type = "month"
    THEN LET parts == split(lastPeriod)
         IN  StepPeriods(Number(parts[1]), Number(parts[2]), MonthsPerYear, count, <<>>)
    ELSE StepYears(Number(lastPeriod), count, <<>>)

(***************************************************************************)
(* projections.ts : generateProjections                                    *)
(***************************************************************************)
NoResult ==
    [historical |-> <<>>, projections |-> <<>>,
     metrics |-> [trend |-> "none", growth_rate |-> Undefined,
                  confidence |-> Undefined, r_squared |-> Undefined]]

\* an early return that reports full confidence
EmptyResultConfident ==
    [historical |-> <<>>, projections |-> <<>>,
     metrics |-> [trend |-> "stable", growth_rate |-> JsInt(0),
                  confidence |-> JsInt(100), r_squared |-> Undefined]]

\* the early return for an empty series (r_squared is absent there)
EmptyResult ==
    [historical |-> <<>>, projections |-> <<>>,
     metrics |-> [trend |-> "stable", growth_rate |-> JsInt(0),
                  confidence |-> JsInt(0), r_squared |-> Undefined]]

WindowSize == 4

Alpha == JsDec(3, 10)

\* a multiplier ten times smaller
confidenceMultiplierTenth == JsDec(196, 1000)

confidenceMultiplier == JsDec(196, 100)

LinearWeight == JsDec(4, 10)

SmoothedWeight == JsDec(35, 100)

MaWeight == JsDec(25, 100)

UncertaintyStep == JsDec(1, 10)

TrendThreshold == JsDec(5, 100)

\* the body of futurePeriods.map((period, i) => ...), i counted from 0
\* return { period, projected: Math.max(0, projected), ... }
Projection(period, projected, margin) ==
    [period |-> period,
     projected |-> JsMax(JsInt(0), projected),
     lower_bound |-> JsMax(JsInt(0), JsSub(projected, margin)),
     upper_bound |-> JsAdd(projected, margin)]

Project(values, reg, smoothed, ma, stdDev, period, i) ==
    LET slope == reg.slope
        lastMA == ma[Len(ma)]
        linearProjection == JsAdd(JsMul(slope, JsInt(Len(values) + i)), reg.intercept)
        smoothedTrend == JsAdd(smoothed[Len(smoothed)], JsMul(slope, JsInt(i + 1)))
        maTrend == JsMul(lastMA,
                         JsPow(JsAdd(JsInt(1), JsOrZero(JsDiv(slope, lastMA))), i + 1))
        projected == JsAdd(JsAdd(JsMul(linearProjection, LinearWeight),
                                 JsMul(smoothedTrend, SmoothedWeight)),
                           JsMul(maTrend, MaWeight))
        uncertaintyGrowth == JsAdd(JsInt(1), JsMul(JsInt(i), UncertaintyStep))
        margin == JsMul(JsMul(stdDev, confidenceMultiplier), uncertaintyGrowth)
    IN  Projection(period, projected, margin)

RecentGrowth(values) ==
    IF Len(values) >= 2
    THEN JsDiv(JsSub(values[Len(values)], values[Len(values) - 1]),
               values[Len(values) - 1])
    ELSE JsInt(0)

\* the trend with inclusive thresholds: exactly +5% is 'up', exactly -5% is 'down'
TrendInclusive(recentGrowth) ==
    IF JsLe(TrendThreshold, recentGrowth) THEN "up"
    ELSE IF JsLe(recentGrowth, JsNeg(TrendThreshold)) THEN "down"
    ELSE "stable"

Trend(recentGrowth) ==
    IF JsGt(recentGrowth, TrendThreshold) THEN "up"
    ELSE IF JsLt(recentGrowth, JsNeg(TrendThreshold)) THEN "down"
    ELSE "stable"

\* the overall growth without the test of values.length
OverallGrowthUnguarded(values) ==
    JsMul(JsDiv(JsSub(values[Len(values)], values[1]), values[1]), JsInt(100))

OverallGrowth(values) ==
    IF Len(values) >= 2
    THEN JsMul(JsDiv(JsSub(values[Len(values)], values[1]), values[1]), JsInt(100))
    ELSE JsInt(0)

\* the clamp applied to rSquared itself, without the factor 100
ConfidenceFraction(rSquared) == JsMax(JsInt(0), JsMin(JsInt(100), rSquared))

Confidence(rSquared) == JsMax(JsInt(0), JsMin(JsInt(100), JsMul(rSquared, JsInt(100))))

\* the value generateProjections returns when getSpendByPeriod returned `rows`
\* the return statement, from the constants computed before it
Assemble(historicalRows, values, reg, smoothed, ma, futurePeriods, stdDev) ==
    [historical |-> [j \in 1..Len(historicalRows) |->
                        [period |-> historicalRows[j].period,
                         value |-> historicalRows[j].total]],
     projections |-> [j \in 1..Len(futurePeriods) |->
                        Project(values, reg, smoothed, ma, stdDev, futurePeriods[j], j - 1)],
     metrics |-> [trend |-> Trend(RecentGrowth(values)),
                  growth_rate |-> OverallGrowth(values),
                  confidence |-> Confidence(reg.rSquared),
                  r_squared |-> reg.rSquared]]

\* values, periods, then the statistics of values
Analyse(rows, values, periods, type, count) ==
    Assemble(rows, values,
             linearRegression(values),
             exponentialSmoothing(values, Alpha),
             movingAverage(values, Min(WindowSize, Len(values))),
             generateFuturePeriods(periods[Len(periods)], count, type),
             standardDeviation(values))

\* a generateProjections that keeps a flag between calls: once a call has
\* returned, the next one answers as for an empty series
ProjectionResultStateful(rows, type, count) ==
    IF Len(rows) = 0 \/ pcProj = "done"
    THEN EmptyResult
    ELSE Analyse(rows,
                 [j \in 1..Len(rows) |-> rows[j].total],
                 [j \in 1..Len(rows) |-> rows[j].period],
                 type, count)

\* the value generateProjections returns when getSpendByPeriod returned `rows`
ProjectionResult(rows, type, count) ==
    IF Len(rows) = 0
    THEN EmptyResult
    ELSE Analyse(rows,
                 [j \in 1..Len(rows) |-> rows[j].total],
                 [j \in 1..Len(rows) |-> rows[j].period],
                 type, count)

GenerateProjections ==
    /\ pcProj = "idle"
    /\ projResult' = ProjectionResult(historicalData, periodType, periodsToProject)
    /\ pcProj' = "done"
    /\ UNCHANGED <<historicalData, periodType, periodsToProject>>
    /\ UNCHANGED <<dbVars, reorderVars, extraVars>>

\* a second call with the same arguments, getSpendByPeriod returning the same rows
GenerateProjectionsAgain ==
    /\ pcProj = "done"
    /\ projResult' = ProjectionResult(historicalData, periodType, periodsToProject)
    /\ pcProj' = "again"
    /\ UNCHANGED <<historicalData, periodType, periodsToProject>>
    /\ UNCHANGED <<dbVars, reorderVars, extraVars>>

(***************************************************************************)
(* lib/db : clock, line_items and alerts tables                            *)
(***************************************************************************)
TicksPerDay == 2

\* CURRENT_DATE, a day number
CurrentDate == now \div TicksPerDay

\* the timestamp of midnight of day d
Midnight(d) == d * TicksPerDay

RECURSIVE SumQuantity(_, _)
SumQuantity(B, S) ==
    IF S = {}
    THEN 0
    ELSE LET e == CHOOSE x \in S : TRUE
         IN  e.quantity * CopiesIn(e, B) + SumQuantity(B, S \ {e})

RECURSIVE CountRows(_, _)
CountRows(B, S) ==
    IF S = {}
    THEN 0
    ELSE LET e == CHOOSE x \in S : TRUE
         IN  CopiesIn(e, B) + CountRows(B, S \ {e})

\* WHERE invoice_date >= CURRENT_DATE - INTERVAL 'days' ... GROUP BY product_name
RowsSince(product, days) ==
    {e \in BagToSet(line_items) :
        e.product_name = product /\ e.invoice_date >= CurrentDate - days}

ProductNames == {e.product_name : e \in BagToSet(line_items)}

TrailingDays == 30

RecentDays == 7

DedupDays == 7

\* AVG(quantity) over the last 30 days, for a product with rows there
avg_qty(product) ==
    LET S == RowsSince(product, TrailingDays)
    IN  Rat(SumQuantity(line_items, S), CountRows(line_items, S))

\* SUM(quantity) over the last 7 days
recent_qty(product) == SumQuantity(line_items, RowsSince(product, RecentDays))

SpikeFactor == Rat(15, 10)

MinAverage == RInt(5)

\* the spikes query with an inclusive minimum: p.avg_qty >= 5
SpikesInclusive ==
    {p \in ProductNames :
        /\ RowsSince(p, RecentDays) # {}
        /\ RowsSince(p, TrailingDays) # {}
        /\ RLt(RMul(avg_qty(p), SpikeFactor), RInt(recent_qty(p)))
        /\ ~RLt(avg_qty(p), MinAverage)}

\* the rows of the spikes query: recent JOIN product_avg WHERE ...
Spikes ==
    {p \in ProductNames :
        /\ RowsSince(p, RecentDays) # {}
        /\ RowsSince(p, TrailingDays) # {}
        /\ RLt(RMul(avg_qty(p), SpikeFactor), RInt(recent_qty(p)))
        /\ RLt(MinAverage, avg_qty(p))}

\* Math.round(x) for a rational x
Round(x) == (2 * x.n + x.d) \div (2 * x.d)

\* a value stored in a DECIMAL(12,2) column (positive values)
Decimal2(x) == Rat(Round(RMul(x, RInt(100))), 100)

\* INSERT INTO alerts ... RETURNING * : is_read, is_dismissed and created_at default
createAlert(als, data) ==
    Append(als,
           [id |-> Len(als) + 1,
            type |-> data.type,
            severity |-> data.severity,
            message_pct |-> data.message_pct,
            product_name |-> data.product_name,
            threshold_value |-> Decimal2(data.threshold_value),
            actual_value |-> Decimal2(data.actual_value),
            is_read |-> FALSE,
            is_dismissed |-> FALSE,
            created_at |-> now])

\* the existing-alert query over a window of one day instead of seven
ExistingSpikeAlertsToday(als, product) ==
    {j \in 1..Len(als) :
        /\ als[j].type = "demand_spike"
        /\ als[j].product_name = product
        /\ als[j].created_at > Midnight(CurrentDate - 1)}

\* the existing-alert query restricted to alerts the user has not dealt with
ExistingSpikeAlertsActive(als, product) ==
    {j \in 1..Len(als) :
        /\ als[j].type = "demand_spike"
        /\ als[j].product_name = product
        /\ als[j].created_at > Midnight(CurrentDate - DedupDays)
        /\ ~als[j].is_read
        /\ ~als[j].is_dismissed}

\* SELECT id FROM alerts WHERE type = 'demand_spike' AND product_name = ...
\*   AND created_at > CURRENT_DATE - INTERVAL '7 days'
ExistingSpikeAlerts(als, product) ==
    {j \in 1..Len(als) :
        /\ als[j].type = "demand_spike"
        /\ als[j].product_name = product
        /\ als[j].created_at > Midnight(CurrentDate - DedupDays)}

\* for (const spike of spikes.rows) { ... }
RECURSIVE SpikeLoop(_, _, _)
SpikeLoop(rows, j, als) ==
    IF j > Len(rows)
    THEN als
    ELSE LET product == rows[j]
             recent == RInt(recent_qty(product))
             avg == avg_qty(product)
         IN  SpikeLoop(rows, j + 1,
                 IF ExistingSpikeAlerts(als, product) = {}
                 THEN createAlert(als,
                        [type |-> "demand_spike",
                         severity |-> "warning",
                         message_pct |->
                            Round(RMul(RSub(RDiv(recent, avg), ROne), RInt(100))),
                         product_name |-> product,
                         threshold_value |-> avg,
                         actual_value |-> recent])
                 ELSE als)

\* the orders in which a query without ORDER BY may return the rows S
Orders(S) ==
    {o \in [1..Cardinality(S) -> S] : \A a, b \in 1..Cardinality(S) : a # b => o[a] # o[b]}

MaxRuns == 2

MaxItems == 3

MaxTicks == 2

StartDay == 40

Products == {"P1", "P2"}

Quantities == {3, 9}

DetectAnomalies ==
    /\ detectRuns < MaxRuns
    /\ \E rows \in Orders(Spikes) : alerts' = SpikeLoop(rows, 1, alerts)
    /\ detectRuns' = detectRuns + 1
    /\ UNCHANGED <<line_items, now>>
    /\ UNCHANGED <<projVars, reorderVars, extraVars>>

\* UPDATE alerts SET is_read = true WHERE id = ...
markAlertRead(id) ==
    /\ alerts' = [j \in 1..Len(alerts) |->
                    IF alerts[j].id = id THEN [alerts[j] EXCEPT !.is_read = TRUE]
                    ELSE alerts[j]]
    /\ UNCHANGED <<line_items, now, detectRuns>>
    /\ UNCHANGED <<projVars, reorderVars, extraVars>>

\* a dismiss that deletes the row: DELETE FROM alerts WHERE id = ...
dismissAlertDelete(id) ==
    /\ alerts' = SelectSeq(alerts, LAMBDA a : a.id # id)
    /\ UNCHANGED <<line_items, now, detectRuns>>
    /\ UNCHANGED <<projVars, reorderVars, extraVars>>

\* UPDATE alerts SET is_dismissed = true WHERE id = ...
dismissAlert(id) ==
    /\ alerts' = [j \in 1..Len(alerts) |->
                    IF alerts[j].id = id THEN [alerts[j] EXCEPT !.is_dismissed = TRUE]
                    ELSE alerts[j]]
    /\ UNCHANGED <<line_items, now, detectRuns>>
    /\ UNCHANGED <<projVars, reorderVars, extraVars>>

\* SELECT * FROM alerts WHERE [is_read = false AND] is_dismissed = false (ids)
getAlerts(unreadOnly) ==
    {j \in 1..Len(alerts) :
        ~alerts[j].is_dismissed /\ (unreadOnly => ~alerts[j].is_read)}

\* createLineItems: one more row, invoice dated today
InsertLineItem(product, quantity) ==
    /\ BagCardinality(line_items) < MaxItems
    /\ line_items' = line_items (+) SetToBag({[product_name |-> product,
                                               quantity |-> quantity,
                                               invoice_date |-> CurrentDate]})
    /\ UNCHANGED <<alerts, now, detectRuns>>
    /\ UNCHANGED <<projVars, reorderVars, extraVars>>

AdvanceClock ==
    /\ now < Midnight(StartDay) + MaxTicks
    /\ now' = now + 1
    /\ UNCHANGED <<line_items, alerts, detectRuns>>
    /\ UNCHANGED <<projVars, reorderVars, extraVars>>

(***************************************************************************)
(* detectAnomalies as its awaited steps, for calls that overlap in time    *)
(***************************************************************************)
\* the row of the spikes query for product p
SpikeRow(p) == [product_name |-> p, recent_qty |-> RInt(recent_qty(p)), avg_qty |-> avg_qty(p)]

\* where a call goes after row `index`: to the next row, or it returns
AfterRow(run) ==
    [run EXCEPT !.index = run.index + 1,
                !.pc = IF run.index + 1 > Len(run.rows) THEN "done" ELSE "loop"]

\* const spikes = await sql`...`
QuerySpikes(r) ==
    /\ runs[r].pc = "idle"
    /\ \E o \in Orders(Spikes) :
           runs' = [runs EXCEPT ![r] =
                      [pc |-> IF Len(o) = 0 THEN "done" ELSE "loop",
                       rows |-> [j \in 1..Len(o) |-> SpikeRow(o[j])],
                       index |-> 1]]
    /\ detectRuns' = IF Spikes = {} THEN detectRuns + 1 ELSE detectRuns
    /\ UNCHANGED <<line_items, alerts, now>>
    /\ UNCHANGED <<projVars, reorderVars, statVars, uploadVars>>

\* const existing = await sql`...`; if (existing.rows.length === 0) ...
QueryExisting(r) ==
    /\ runs[r].pc = "loop"
    /\ runs' = [runs EXCEPT ![r] =
                  IF ExistingSpikeAlerts(alerts, runs[r].rows[runs[r].index].product_name) = {}
                  THEN [runs[r] EXCEPT !.pc = "create"]
                  ELSE AfterRow(runs[r])]
    /\ detectRuns' = IF runs'[r].pc = "done" THEN detectRuns + 1 ELSE detectRuns
    /\ UNCHANGED <<line_items, alerts, now>>
    /\ UNCHANGED <<projVars, reorderVars, statVars, uploadVars>>

\* await createAlert({...})
CreateSpikeAlert(r) ==
    /\ runs[r].pc = "create"
    /\ alerts' = createAlert(alerts,
          [type |-> "demand_spike",
           severity |-> "warning",
           message_pct |->
              Round(RMul(RSub(RDiv(runs[r].rows[runs[r].index].recent_qty,
                                   runs[r].rows[runs[r].index].avg_qty), ROne), RInt(100))),
           product_name |-> runs[r].rows[runs[r].index].product_name,
           threshold_value |-> runs[r].rows[runs[r].index].avg_qty,
           actual_value |-> runs[r].rows[runs[r].index].recent_qty])
    /\ runs' = [runs EXCEPT ![r] = AfterRow(runs[r])]
    /\ detectRuns' = IF runs'[r].pc = "done" THEN detectRuns + 1 ELSE detectRuns
    /\ UNCHANGED <<line_items, now>>
    /\ UNCHANGED <<projVars, reorderVars, statVars, uploadVars>>

(***************************************************************************)
(* lib/db : getOrCreatePharmacy, statement by statement                    *)
(***************************************************************************)
\* LOWER(name) for the names pharmacies are given here
Lower(name) ==
    IF name \in {"Acme", "ACME", "acme"} THEN "acme"
    ELSE IF name \in {"Beta", "beta"} THEN "beta"
    ELSE name

\* SELECT * FROM pharmacies WHERE LOWER(name) = LOWER(...) : the row numbers
MatchingPharmacies(table, name) ==
    {j \in 1..Len(table) : Lower(table[j].name) = Lower(name)}

\* INSERT INTO pharmacies (name, code) VALUES (...) RETURNING *
createPharmacy(table, name) == Append(table, [id |-> Len(table) + 1, name |-> name])

\* const existing = await sql`SELECT ... LIMIT 1`; if (existing.rows.length > 0) return
SelectPharmacy(c) ==
    /\ calls[c].pc = "select"
    /\ IF MatchingPharmacies(pharmacies, calls[c].name) = {}
       THEN calls' = [calls EXCEPT ![c].pc = "insert"]
       ELSE \E j \in MatchingPharmacies(pharmacies, calls[c].name) :
                calls' = [calls EXCEPT ![c].pc = "done", ![c].id = pharmacies[j].id]
    /\ UNCHANGED <<upload_history, invoices, pharmacies, request, upload>>
    /\ UNCHANGED <<projVars, dbVars, reorderVars, statVars, runs>>

\* return createPharmacy(name)
InsertPharmacy(c) ==
    /\ calls[c].pc = "insert"
    /\ pharmacies' = createPharmacy(pharmacies, calls[c].name)
    /\ calls' = [calls EXCEPT ![c].pc = "done", ![c].id = Len(pharmacies) + 1]
    /\ UNCHANGED <<upload_history, invoices, request, upload>>
    /\ UNCHANGED <<projVars, dbVars, reorderVars, statVars, runs>>

(***************************************************************************)
(* app/api/upload POST: one request, statement by statement                *)
(***************************************************************************)
\* what the row loop keeps of a parsed row: rows without product name are skipped
Item(row) ==
    [productName |-> row.productName,
     quantity |-> IF row.quantity = 0 THEN 1 ELSE row.quantity,
     date |-> row.date]

ValidRows(rows) == SelectSeq(rows, LAMBDA row : row.productName # "")

\* the keys of invoiceMap in insertion order
RECURSIVE DateKeys(_, _)
DateKeys(rows, keys) ==
    IF rows = <<>>
    THEN keys
    ELSE DateKeys(Tail(rows),
                  IF \E k \in 1..Len(keys) : keys[k] = Head(rows).date
                  THEN keys
                  ELSE Append(keys, Head(rows).date))

\* invoiceMap.entries() for the key sequence `keys`
GroupsOf(valid, keys) ==
    [k \in 1..Len(keys) |->
        [date |-> keys[k],
         items |-> SelectSeq([j \in 1..Len(valid) |-> Item(valid[j])],
                             LAMBDA item : item.date = keys[k])]]

InvoiceMap(rows) == GroupsOf(ValidRows(rows), DateKeys(ValidRows(rows), <<>>))

\* the handler returns `status`
Respond(up, status) == [up EXCEPT !.pc = "done", !.response = status]

\* the handler goes on to write a 'failed' history row and then answers `status`
FailWith(up, message, status) ==
    [up EXCEPT !.pc = "historyFailed", !.failure = message, !.failureStatus = status]

\* formData, the required-field test, JSON.parse(mappingJson), mapping.productName
ValidateUpload ==
    /\ upload.pc = "start"
    /\ upload' = IF request.form = "missingField" \/ request.form = "noProductName"
                 THEN Respond(upload, 400)
                 ELSE IF request.form = "malformedMapping"
                 THEN Respond(upload, 500)
                 ELSE [upload EXCEPT !.pc = "pharmacy"]
    /\ UNCHANGED <<upload_history, invoices, pharmacies, request, calls>>
    /\ UNCHANGED <<projVars, dbVars, reorderVars, statVars, runs>>

\* const pharmacy = await getOrCreatePharmacy(pharmacyName), the name being "Acme"
UploadPharmacy ==
    /\ upload.pc = "pharmacy"
    /\ pharmacies' = IF MatchingPharmacies(pharmacies, "Acme") # {}
                     THEN pharmacies
                     ELSE createPharmacy(pharmacies, "Acme")
    /\ \E j \in MatchingPharmacies(pharmacies', "Acme") :
           upload' = [upload EXCEPT !.pc = "parse", !.pharmacy_id = pharmacies'[j].id]
    /\ UNCHANGED <<upload_history, invoices, request, calls>>
    /\ UNCHANGED <<projVars, dbVars, reorderVars, statVars, runs>>

\* the parsers, the test of rows.length, the row loop, the test of invoiceMap.size
ParseUpload ==
    /\ upload.pc = "parse"
    /\ upload' =
          IF request.parse = "throws"
          THEN FailWith(upload, "Parse error", 500)
          ELSE IF Len(request.rows) = 0
          THEN FailWith(upload, "No data rows found in file", 400)
          ELSE IF Len(ValidRows(request.rows)) = 0
          THEN FailWith([upload EXCEPT !.skippedRows = Len(request.rows)],
                        "No valid data rows found (check Product Name mapping)", 400)
          ELSE [upload EXCEPT
                  !.pc = "invoice",
                  !.groups = InvoiceMap(request.rows),
                  !.skippedRows = Len(request.rows) - Len(ValidRows(request.rows))]
    /\ UNCHANGED <<upload_history, invoices, pharmacies, request, calls>>
    /\ UNCHANGED <<projVars, dbVars, reorderVars, statVars, runs>>

\* INSERT INTO upload_history ... RETURNING *
createUploadHistory(history, data) ==
    Append(history,
           [id |-> Len(history) + 1,
            pharmacy_id |-> data.pharmacy_id,
            status |-> data.status,
            error_message |-> data.error_message])

\* await createUploadHistory({..., status: 'failed', ...}), then throw or return
WriteFailedHistory ==
    /\ upload.pc = "historyFailed"
    /\ upload_history' = createUploadHistory(upload_history,
          [pharmacy_id |-> upload.pharmacy_id, status |-> "failed",
           error_message |-> upload.failure])
    /\ upload' = Respond(upload, upload.failureStatus)
    /\ UNCHANGED <<invoices, pharmacies, request, calls>>
    /\ UNCHANGED <<projVars, dbVars, reorderVars, statVars, runs>>

\* const invoice = await createInvoice({...})
CreateInvoice ==
    /\ upload.pc = "invoice"
    /\ invoices' = Append(invoices,
          [id |-> Len(invoices) + 1,
           pharmacy_id |-> upload.pharmacy_id,
           invoice_date |-> upload.groups[1].date,
           item_count |-> Len(upload.groups[1].items)])
    /\ upload' = [upload EXCEPT !.pc = "items", !.itemIndex = 1]
    /\ UNCHANGED <<upload_history, pharmacies, request, calls>>
    /\ UNCHANGED <<projVars, dbVars, reorderVars, statVars, runs>>

\* where the handler is after the insert of item `itemIndex` of the first group
AfterItem(up) ==
    IF up.itemIndex < Len(up.groups[1].items)
    THEN [up EXCEPT !.itemIndex = up.itemIndex + 1]
    ELSE [up EXCEPT !.groups = Tail(up.groups),
                    !.itemIndex = 1,
                    !.totalInvoices = up.totalInvoices + 1,
                    !.totalItems = up.totalItems + Len(up.groups[1].items),
                    !.pc = IF Len(up.groups) = 1 THEN "history" ELSE "invoice"]

\* createLineItems: one INSERT INTO line_items of its loop
InsertUploadedItem ==
    /\ upload.pc = "items"
    /\ line_items' = line_items (+) SetToBag({
          [product_name |-> upload.groups[1].items[upload.itemIndex].productName,
           quantity |-> upload.groups[1].items[upload.itemIndex].quantity,
           invoice_date |-> upload.groups[1].items[upload.itemIndex].date]})
    /\ upload' = AfterItem(upload)
    /\ UNCHANGED <<upload_history, invoices, pharmacies, request, calls>>
    /\ UNCHANGED <<alerts, now, detectRuns>>
    /\ UNCHANGED <<projVars, reorderVars, statVars, runs>>

\* await createUploadHistory({..., status: 'completed'})
WriteCompletedHistory ==
    /\ upload.pc = "history"
    /\ upload_history' = createUploadHistory(upload_history,
          [pharmacy_id |-> upload.pharmacy_id, status |-> "completed",
           error_message |-> "NULL"])
    /\ upload' = [upload EXCEPT !.pc = "detect"]
    /\ UNCHANGED <<invoices, pharmacies, request, calls>>
    /\ UNCHANGED <<projVars, dbVars, reorderVars, statVars, runs>>

\* the handler without the try/catch around detectAnomalies
AfterDetectUncaught(up, threw) ==
    [up EXCEPT !.pc = "done", !.threw = threw, !.response = IF threw THEN 500 ELSE 200]

\* try { await detectAnomalies() } catch (e) { console.error(...) }; return success
AfterDetect(up, threw) ==
    [up EXCEPT !.pc = "done", !.threw = threw, !.response = 200]

\* detectAnomalies handles the first `handled` of its rows; it throws when a
\* statement fails before the last one is handled
UploadDetect ==
    /\ upload.pc = "detect"
    /\ \E o \in Orders(Spikes) : \E handled \in 0..Len(o) : \E threw \in BOOLEAN :
          /\ handled < Len(o) => threw
          /\ alerts' = SpikeLoop(SubSeq(o, 1, handled), 1, alerts)
          /\ upload' = AfterDetect(upload, threw)
          /\ detectRuns' = IF threw THEN detectRuns ELSE detectRuns + 1
    /\ UNCHANGED <<line_items, now>>
    /\ UNCHANGED <<upload_history, invoices, pharmacies, request, calls>>
    /\ UNCHANGED <<projVars, reorderVars, statVars, runs>>

\* a database statement of the handler fails: the outer catch answers 500
UploadDbError ==
    /\ upload.pc \in {"pharmacy", "historyFailed", "invoice", "items", "history"}
    /\ upload' = Respond(upload, 500)
    /\ UNCHANGED <<upload_history, invoices, pharmacies, request, calls>>
    /\ UNCHANGED <<projVars, dbVars, reorderVars, statVars, runs>>

(***************************************************************************)
(* lib/db : getReorderRecommendations                                      *)
(***************************************************************************)
ReorderWindowDays == 90

ReorderLimit == 20

typicalSupply == 84

HighBelow == 7

MediumBelow == 21

MaxDate(S) == CHOOSE d \in {e.invoice_date : e \in S} : \A e \in S : e.invoice_date <= d

\* the demand CTE without its HAVING clause: one row in the window is enough
DemandProductsAny ==
    {p \in ProductNames : CountRows(line_items, RowsSince(p, ReorderWindowDays)) >= 1}

\* the products of the demand CTE: GROUP BY product_name HAVING COUNT(*) >= 2
DemandProducts ==
    {p \in ProductNames : CountRows(line_items, RowsSince(p, ReorderWindowDays)) >= 2}

DemandRow(p) ==
    LET S == RowsSince(p, ReorderWindowDays)
    IN  [product_name |-> p,
         avg_qty |-> Rat(SumQuantity(line_items, S), CountRows(line_items, S)),
         last_order |-> MaxDate(S),
         days_since_order |-> CurrentDate - MaxDate(S)]

\* the orders ORDER BY days_since_order ASC would give
RECURSIVE AscendingRows(_)
AscendingRows(S) ==
    IF S = {}
    THEN {<<>>}
    ELSE UNION {{<<r>> \o t : t \in AscendingRows(S \ {r})} :
                  r \in {r \in S : \A q \in S : r.days_since_order <= q.days_since_order}}

\* the query with ORDER BY days_since_order ASC LIMIT 20
ReorderRowsAscending ==
    {SubSeq(o, 1, Min(ReorderLimit, Len(o))) :
        o \in AscendingRows({DemandRow(p) : p \in DemandProducts})}

\* ORDER BY days_since_order DESC : rows of equal days_since_order come in any order
RECURSIVE SortedRows(_)
SortedRows(S) ==
    IF S = {}
    THEN {<<>>}
    ELSE UNION {{<<r>> \o t : t \in SortedRows(S \ {r})} :
                  r \in {r \in S : \A q \in S : r.days_since_order >= q.days_since_order}}

\* ORDER BY days_since_order DESC LIMIT 20
ReorderRows ==
    {SubSeq(o, 1, Min(ReorderLimit, Len(o))) :
        o \in SortedRows({DemandRow(p) : p \in DemandProducts})}

\* urgency with inclusive limits: 7 days left is 'high', 21 days left is 'medium'
UrgencyInclusive(daysUntilReorder) ==
    IF daysUntilReorder <= HighBelow THEN "high"
    ELSE IF daysUntilReorder <= MediumBelow THEN "medium"
    ELSE "low"

\* urgency with the tests turned around: the more days are left, the more urgent
UrgencyReversed(daysUntilReorder) ==
    IF daysUntilReorder >= MediumBelow THEN "high"
    ELSE IF daysUntilReorder >= HighBelow THEN "medium"
    ELSE "low"

Urgency(daysUntilReorder) ==
    IF daysUntilReorder < HighBelow THEN "high"
    ELSE IF daysUntilReorder < MediumBelow THEN "medium"
    ELSE "low"

\* the reorder date without Math.max(0, ...): an overdue product gets a past date
ReorderDateUnclamped(daysUntilReorder) ==
    (now + daysUntilReorder * TicksPerDay) \div TicksPerDay

\* new Date(); setDate(getDate() + Math.max(0, daysUntilReorder)); toISOString().split('T')[0]
ReorderDate(daysUntilReorder) ==
    (now + Max(0, daysUntilReorder) * TicksPerDay) \div TicksPerDay

\* the body of result.rows.map(row => ...)
Recommendation(row) ==
    LET daysSinceOrder == row.days_since_order
        daysUntilReorder == typicalSupply - daysSinceOrder
    IN  [product_name |-> row.product_name,
         avg_daily_demand |-> RDiv(row.avg_qty, RInt(30)),
         days_supply_pattern |-> typicalSupply,
         last_order_date |-> row.last_order,
         estimated_reorder_date |-> ReorderDate(daysUntilReorder),
         urgency |-> Urgency(daysUntilReorder)]

GetReorderRecommendations ==
    /\ pcReorder = "idle"
    /\ \E rows \in ReorderRows :
           recommendations' = [j \in 1..Len(rows) |-> Recommendation(rows[j])]
    /\ pcReorder' = "done"
    /\ UNCHANGED <<dbVars, projVars, extraVars>>

(***************************************************************************)
(* Inputs of generateProjections: what getSpendByPeriod returns.           *)
(***************************************************************************)
MaxLen == 5

MaxHorizon == 3

MaxValue == 2

MaxTrendLen == 3

MaxTrendHorizon == 1

TrendValues == {0, 19, 20, 21, 22}

PeriodTypes == {"week", "month", "year"}

\* last labels TO_CHAR(invoice_date, 'IYYY-IW' | 'YYYY-MM' | 'YYYY') can give
LastPeriods(type) ==
    IF type = "week" THEN {<<2024, 52>>, <<2020, 53>>, <<2024, 7>>}
    ELSE IF type = "month" THEN {<<2024, 12>>, <<2024, 6>>}
    ELSE {<<2024, 0>>}

Label(type, year, num) ==
    IF type = "year" THEN String(year) ELSE String(year) \o <<"-">> \o padStart(String(num), 2)

\* rows grouped by period and ordered by it: consecutive periods ending at `last`
SpendByPeriod(type, last, totals) ==
    [j \in 1..Len(totals) |->
        [period |-> IF type = "year"
                    THEN Label(type, last[1] - (Len(totals) - j), 0)
                    ELSE Label(type, last[1], last[2] - (Len(totals) - j)),
         total |-> JsInt(totals[j])]]

SeqsUpTo(S, n) == UNION {[1..m -> S] : m \in 0..n}

InitDb ==
    /\ line_items = EmptyBag
    /\ alerts = <<>>
    /\ now = Midnight(StartDay)
    /\ detectRuns = 0
    /\ recommendations = <<>>
    /\ pcReorder = "idle"

InitProjectionOver(S, maxLen, maxHorizon) ==
    /\ periodType \in PeriodTypes
    /\ periodsToProject \in 1..maxHorizon
    /\ \E totals \in SeqsUpTo(S, maxLen) : \E last \in LastPeriods(periodType) :
           historicalData = SpendByPeriod(periodType, last, totals)
    /\ pcProj = "idle"
    /\ projResult = NoResult
    /\ InitDb
    /\ IdleExtra

InitProjection == InitProjectionOver(0..MaxValue, MaxLen, MaxHorizon)

MaxDeclineLen == 2

\* series of at most two periods: the last moving average is 0 only with slope 0
InitDecline == InitProjectionOver(0..MaxValue, MaxDeclineLen, MaxHorizon)

InitTrend == InitProjectionOver(TrendValues, MaxTrendLen, MaxTrendHorizon)

MaxConstant == 3

MaxConstantLen == 5

\* every period has the same total
InitConstant ==
    /\ periodType \in PeriodTypes
    /\ periodsToProject \in 1..MaxHorizon
    /\ \E c \in 0..MaxConstant : \E n \in 1..MaxConstantLen :
       \E last \in LastPeriods(periodType) :
           historicalData = SpendByPeriod(periodType, last, [j \in 1..n |-> c])
    /\ pcProj = "idle"
    /\ projResult = NoResult
    /\ InitDb
    /\ IdleExtra

MaxStart == 2

MaxStep == 2

MaxLinearLen == 4

\* arithmetic progressions a, a + d, ..., a + (n - 1) * d of non-negative totals,
\* and the series 10, 20, 30, 40, 50
LinearSeries ==
    {<<10, 20, 30, 40, 50>>} \cup
    {totals \in UNION {{[j \in 1..n |-> a + (j - 1) * d] :
                          a \in 0..MaxStart, d \in (-MaxStep)..MaxStep} :
                      n \in 2..MaxLinearLen} :
        \A j \in 1..Len(totals) : totals[j] >= 0}

InitLinear ==
    /\ periodType \in PeriodTypes
    /\ periodsToProject \in 1..MaxTrendHorizon
    /\ \E totals \in LinearSeries : \E last \in LastPeriods(periodType) :
           historicalData = SpendByPeriod(periodType, last, totals)
    /\ pcProj = "idle"
    /\ projResult = NoResult
    /\ InitDb
    /\ IdleExtra

NextProjection == GenerateProjections

SpecProjection == InitProjection /\ [][NextProjection]_vars

SpecTrend == InitTrend /\ [][NextProjection]_vars

SpecDecline == InitDecline /\ [][NextProjection]_vars

SpecConstant == InitConstant /\ [][NextProjection]_vars

SpecLinear == InitLinear /\ [][NextProjection]_vars

NextRepeat == GenerateProjections \/ GenerateProjectionsAgain

SpecRepeat == InitTrend /\ [][NextRepeat]_vars

(***************************************************************************)
(* Properties of generateProjections                                       *)
(***************************************************************************)
Done == pcProj = "done"

\* the historical totals, which are integers in every initial state
Totals == [j \in 1..Len(historicalData) |-> historicalData[j].total.q.n]

ProjectionIndices == 1..Len(projResult.projections)

\* C1: every emitted projection has lower_bound <= projected <= upper_bound and
\* lower_bound >= 0, for every non-empty series of finite non-negative values.
C1_BoundsInvariant ==
    Done => \A j \in ProjectionIndices :
                LET pr == projResult.projections[j]
                IN  /\ JsLe(pr.lower_bound, pr.projected)
                    /\ JsLe(pr.projected, pr.upper_bound)
                    /\ JsLe(JsInt(0), pr.lower_bound)

\* C2: projected, lower_bound and upper_bound of every projection are finite
\* numbers (never NaN or Infinity), also when the last moving average is 0.
C2_FiniteOutputs ==
    Done => \A j \in ProjectionIndices :
                LET pr == projResult.projections[j]
                IN  IsFinite(pr.projected) /\ IsFinite(pr.lower_bound) /\ IsFinite(pr.upper_bound)

\* C3: growth_rate is ((last - first) / first) * 100 for a series of at least two
\* points whose first value is not 0, and 0 otherwise; never NaN or Infinity.
C3_GrowthRate ==
    Done =>
        LET n == Len(Totals)
            g == projResult.metrics.growth_rate
        IN  /\ IsFinite(g)
            /\ RSign(g.c) = 0
            /\ IF n >= 2 /\ Totals[1] # 0
               THEN g.q.n * Totals[1] = 100 * (Totals[n] - Totals[1]) * g.q.d
               ELSE g.q.n = 0

\* C6: for an empty series the call returns (it does not throw) empty historical
\* and projections arrays and metrics trend 'stable', growth_rate 0, confidence 0,
\* for every period type and horizon.
C6_EmptySeries ==
    /\ (Len(historicalData) = 0 /\ pcProj = "idle") => ENABLED GenerateProjections
    /\ (Len(historicalData) = 0 /\ Done) =>
           /\ projResult.historical = <<>>
           /\ projResult.projections = <<>>
           /\ projResult.metrics.trend = "stable"
           /\ JsEq(projResult.metrics.growth_rate, JsInt(0))
           /\ JsEq(projResult.metrics.confidence, JsInt(0))

C6_Witness ==
    Len(historicalData) = 0 /\ Done /\ periodType = "week"
    /\ periodsToProject = MaxTrendHorizon /\ projResult.metrics.trend = "stable"

\* C9: with at least two points and a positive second-to-last value, trend is 'up'
\* iff (last - secondLast)/secondLast > 0.05, 'down' iff it is < -0.05 and 'stable'
\* otherwise (exactly +5% or -5% is 'stable'); with fewer than two points it is
\* 'stable'.  Stated on the integers: g > 5/100 iff 100*(last - secondLast) > 5*secondLast.
C9_Trend ==
    Done =>
        LET n == Len(Totals)
            trend == projResult.metrics.trend
        IN  IF n < 2
            THEN trend = "stable"
            ELSE LET last == Totals[n]
                     secondLast == Totals[n - 1]
                     up == 100 * (last - secondLast) > 5 * secondLast
                     down == 100 * (last - secondLast) < -5 * secondLast
                 IN  secondLast > 0 =>
                         /\ trend = "up" <=> up
                         /\ trend = "down" <=> down
                         /\ trend = "stable" <=> (~up /\ ~down)

\* growth of exactly +5% on a three-point series: 'stable'
C9_Witness ==
    /\ Done
    /\ Len(Totals) = 3
    /\ Totals[2] = 20
    /\ Totals[3] = 21
    /\ projResult.metrics.trend = "stable"

\* the blend of section 4.2: the ratio slope/lastMA counts as 0 when lastMA is 0
Blend(values, i) ==
    LET n == Len(values)
        reg == linearRegression(values)
        smoothed == exponentialSmoothing(values, Alpha)
        ma == movingAverage(values, Min(WindowSize, n))
        lastMA == ma[n]
        ratio == IF JsSign(lastMA) = 0 THEN JsInt(0) ELSE JsDiv(reg.slope, lastMA)
        maTrend == JsMul(lastMA, JsPow(JsAdd(JsInt(1), ratio), i + 1))
    IN  JsAdd(JsAdd(JsMul(JsDec(40, 100),
                          JsAdd(JsMul(reg.slope, JsInt(n + i)), reg.intercept)),
                    JsMul(JsDec(35, 100),
                          JsAdd(smoothed[n], JsMul(reg.slope, JsInt(i + 1))))),
              JsMul(JsDec(25, 100), maTrend))

\* C10: for a non-empty series and each offset i, projected equals
\* max(0, 0.40*linear + 0.35*smoothed + 0.25*maTrend_i).
C10_Blend ==
    Done => \A j \in ProjectionIndices :
                LET values == [m \in 1..Len(historicalData) |-> historicalData[m].total]
                    blend == Blend(values, j - 1)
                    expected == IF JsSign(blend) < 0 THEN JsInt(0) ELSE blend
                IN  JsEq(projResult.projections[j].projected, expected)

C12_ConstantSeries ==
    (Done /\ Len(Totals) >= 1 /\ \A j \in 1..Len(Totals) : Totals[j] = Totals[1]) =>
        /\ \A j \in ProjectionIndices :
               LET pr == projResult.projections[j]
               IN  /\ JsEq(pr.projected, JsInt(Totals[1]))
                   /\ JsEq(pr.lower_bound, pr.projected)
                   /\ JsEq(pr.upper_bound, pr.projected)
        /\ JsEq(projResult.metrics.r_squared, JsInt(0))
        /\ JsEq(projResult.metrics.confidence, JsInt(0))

\* five periods of 3 projected three periods ahead
C12_Witness ==
    /\ Done
    /\ Totals = <<3, 3, 3, 3, 3>>
    /\ Len(projResult.projections) = 3
    /\ JsEq(projResult.projections[3].upper_bound, JsInt(3))

\* C13: for a series of one value v >= 0 (v = 0 included) the regression has
\* slope 0, intercept v and rSquared 0; every projection has projected =
\* lower_bound = upper_bound = v, growth_rate is 0, trend is 'stable' and
\* confidence is 0.
C13_SinglePoint ==
    (Done /\ Len(Totals) = 1) =>
        LET v == JsInt(Totals[1])
            reg == linearRegression(<<historicalData[1].total>>)
        IN  /\ JsEq(reg.slope, JsInt(0))
            /\ JsEq(reg.intercept, v)
            /\ JsEq(reg.rSquared, JsInt(0))
            /\ \A j \in ProjectionIndices :
                   LET pr == projResult.projections[j]
                   IN  /\ JsEq(pr.projected, v)
                       /\ JsEq(pr.lower_bound, v)
                       /\ JsEq(pr.upper_bound, v)
            /\ JsEq(projResult.metrics.growth_rate, JsInt(0))
            /\ projResult.metrics.trend = "stable"
            /\ JsEq(projResult.metrics.confidence, JsInt(0))

\* the single value 0, projected three weeks ahead
C13_Witness ==
    /\ Done
    /\ Totals = <<0>>
    /\ periodType = "week"
    /\ Len(projResult.projections) = 3
    /\ JsEq(projResult.projections[3].projected, JsInt(0))

\* one step of a period <<year, number>>: week w -> w + 1 if w < 52 else week 1
\* of the next year, month m -> m + 1 if m < 12 else month 1 of the next year,
\* year Y -> Y + 1
StepOnce(type, p) ==
    IF type = "year" THEN <<p[1] + 1, 0>>
    ELSE IF p[2] < (IF type = "week" THEN 52 ELSE 12) THEN <<p[1], p[2] + 1>>
    ELSE <<p[1] + 1, 1>>

RECURSIVE StepTimes(_, _, _)
StepTimes(type, p, k) == IF k = 0 THEN p ELSE StepOnce(type, StepTimes(type, p, k - 1))

\* "YYYY" for a year, "YYYY-NN" with a two-digit number for a week or a month
TwoDigitLabel(type, p) ==
    IF type = "year" THEN String(p[1])
    ELSE String(p[1]) \o <<"-">> \o
         (IF p[2] < 10 THEN <<"0">> \o String(p[2]) ELSE String(p[2]))

\* C14: for a non-empty series and a horizon >= 1 there are exactly horizon
\* projections; the label of the k-th is the last historical label stepped k
\* times (2024-52 -> 2025-01, 2024-12 -> 2025-01, year Y -> Y + 1), every week
\* is in 1..52 and every month in 1..12, written with two digits.
C14_FutureLabels ==
    (Done /\ Len(historicalData) >= 1) =>
        /\ Len(projResult.projections) = periodsToProject
        /\ \E last \in LastPeriods(periodType) :
               /\ Number(split(historicalData[Len(historicalData)].period)[1]) = last[1]
               /\ periodType # "year" =>
                      Number(split(historicalData[Len(historicalData)].period)[2]) = last[2]
               /\ \A k \in 1..periodsToProject :
                      LET p == StepTimes(periodType, last, k)
                      IN  /\ projResult.projections[k].period = TwoDigitLabel(periodType, p)
                          /\ periodType = "week" => p[2] \in 1..52
                          /\ periodType = "month" => p[2] \in 1..12

\* three weeks after 2024-52: 2025-01, 2025-02, 2025-03
C14_Witness ==
    /\ Done
    /\ periodType = "week"
    /\ historicalData[Len(historicalData)].period = <<"2", "0", "2", "4", "-", "5", "2">>
    /\ Len(projResult.projections) = 3
    /\ projResult.projections[1].period = <<"2", "0", "2", "5", "-", "0", "1">>
    /\ projResult.projections[3].period = <<"2", "0", "2", "5", "-", "0", "3">>

\* C15: for an arithmetic progression a, a + d, ..., a + (n - 1) * d with n >= 2
\* and d # 0, linearRegression over the positions 0..n-1 returns slope d,
\* intercept a and rSquared 1, and metrics.confidence is 100.
C15_LinearSeries ==
    (Done /\ Len(Totals) >= 2 /\ Totals[2] # Totals[1]
          /\ \A j \in 2..Len(Totals) : Totals[j] - Totals[j - 1] = Totals[2] - Totals[1]) =>
        LET reg == linearRegression([j \in 1..Len(Totals) |-> historicalData[j].total])
        IN  /\ JsEq(reg.slope, JsInt(Totals[2] - Totals[1]))
            /\ JsEq(reg.intercept, JsInt(Totals[1]))
            /\ JsEq(reg.rSquared, JsInt(1))
            /\ JsEq(projResult.metrics.r_squared, JsInt(1))
            /\ JsEq(projResult.metrics.confidence, JsInt(100))

\* the increasing progression 1, 3, 5, 7
C15_Witness ==
    /\ Done
    /\ Totals = <<1, 3, 5, 7>>
    /\ JsEq(projResult.metrics.confidence, JsInt(100))

\* C16: for every non-empty series, metrics.confidence is r_squared * 100 clamped
\* to [0, 100], so 0 <= confidence <= 100.
C16_Confidence ==
    (Done /\ Len(Totals) >= 1) =>
        LET percent == JsMul(projResult.metrics.r_squared, JsInt(100))
            confidence == projResult.metrics.confidence
        IN  /\ JsEq(confidence,
                    IF JsLt(percent, JsInt(0)) THEN JsInt(0)
                    ELSE IF JsGt(percent, JsInt(100)) THEN JsInt(100)
                    ELSE percent)
            /\ JsLe(JsInt(0), confidence)
            /\ JsLe(confidence, JsInt(100))

\* 19, 22, 20: r_squared is 3/28 and confidence 75/7, strictly inside (0, 100)
C16_Witness ==
    /\ Done
    /\ Totals = <<19, 22, 20>>
    /\ JsEq(projResult.metrics.r_squared, JsDec(3, 28))
    /\ JsEq(projResult.metrics.confidence, JsDec(75, 7))

\* C17: for each future offset i the margin stdDev(values) * 1.96 * (1 + 0.10 * i)
\* is non-negative and non-decreasing in i, and upper_bound is the unclamped
\* blended value plus exactly this margin.
C17_Margin ==
    Done => \A j \in ProjectionIndices :
                LET values == [m \in 1..Len(historicalData) |-> historicalData[m].total]
                    stdDev == standardDeviation(values)
                    margin == JsMul(JsMul(stdDev, JsDec(196, 100)),
                                    JsAdd(JsInt(1), JsMul(JsDec(10, 100), JsInt(j - 1))))
                    before == JsMul(JsMul(stdDev, JsDec(196, 100)),
                                    JsAdd(JsInt(1), JsMul(JsDec(10, 100), JsInt(j - 2))))
                IN  /\ JsLe(JsInt(0), margin)
                    /\ j > 1 => JsLe(before, margin)
                    /\ JsEq(projResult.projections[j].upper_bound,
                            JsAdd(Blend(values, j - 1), margin))

(***************************************************************************)
(* The alerts subsystem: detection, read, dismiss, uploads, time           *)
(***************************************************************************)
RECURSIVE BagsUpTo(_, _)
BagsUpTo(T, n) ==
    IF n = 0
    THEN {EmptyBag}
    ELSE LET smaller == BagsUpTo(T, n - 1)
         IN  smaller \cup {b (+) SetToBag({t}) : b \in smaller, t \in T}

IdleProjection ==
    /\ historicalData = <<>>
    /\ periodType = "month"
    /\ periodsToProject = 1
    /\ pcProj = "idle"
    /\ projResult = NoResult

\* ages in days of the invoices present at the start
ItemAges == {0, 7, 30}

\* the rows present at the start: any row of P1, rows of 9 dated today for P2
ItemTypes ==
    [product_name : {"P1"}, quantity : Quantities,
     invoice_date : {StartDay - a : a \in ItemAges}]
    \cup [product_name : {"P2"}, quantity : {9}, invoice_date : {StartDay}]

\* ages in ticks of an alert raised by an earlier run
AlertAges == {1, DedupDays * TicksPerDay - 1, DedupDays * TicksPerDay}

\* an alert an earlier run created: average 6, recent sum 12
PriorAlert(product, created) ==
    [id |-> 1, type |-> "demand_spike", severity |-> "warning", message_pct |-> 100,
     product_name |-> product, threshold_value |-> RInt(6), actual_value |-> RInt(12),
     is_read |-> FALSE, is_dismissed |-> FALSE, created_at |-> created]

InitAlerts ==
    /\ IdleProjection
    /\ IdleExtra
    /\ now = Midnight(StartDay)
    /\ line_items \in BagsUpTo(ItemTypes, MaxItems)
    /\ alerts \in {<<>>} \cup {<<PriorAlert("P1", Midnight(StartDay) - a)>> : a \in AlertAges}
    /\ detectRuns = 0
    /\ recommendations = <<>>
    /\ pcReorder = "idle"

NextAlerts ==
    \/ DetectAnomalies
    \/ \E id \in 1..Len(alerts) : markAlertRead(id)
    \/ \E id \in 1..Len(alerts) : dismissAlert(id)
    \/ \E p \in Products : InsertLineItem(p, 9)
    \/ AdvanceClock

SpecAlerts == InitAlerts /\ [][NextAlerts]_vars

\* rows of P1 with quantities whose averages have no finite decimal expansion
AuditItemTypes ==
    [product_name : {"P1"}, quantity : {5, 12},
     invoice_date : {StartDay - a : a \in {0, TrailingDays}}]

InitAudit ==
    /\ IdleProjection
    /\ IdleExtra
    /\ now = Midnight(StartDay)
    /\ line_items \in BagsUpTo(AuditItemTypes, MaxItems)
    /\ alerts = <<>>
    /\ detectRuns = 0
    /\ recommendations = <<>>
    /\ pcReorder = "idle"

SpecAudit == InitAudit /\ [][NextAlerts]_vars

\* an alert of P1 that the user has already read or dismissed
HandledAlerts ==
    {[PriorAlert("P1", Midnight(StartDay) - a) EXCEPT !.is_read = f, !.is_dismissed = ~f] :
        a \in AlertAges, f \in BOOLEAN}

InitHandled ==
    /\ IdleProjection
    /\ IdleExtra
    /\ now = Midnight(StartDay)
    /\ line_items \in BagsUpTo(ItemTypes, MaxItems)
    /\ \E a \in HandledAlerts : alerts = <<a>>
    /\ detectRuns = 0
    /\ recommendations = <<>>
    /\ pcReorder = "idle"

SpecHandled == InitHandled /\ [][NextAlerts]_vars

MaxFileRows == 3

\* the rows a parser returns: without product name, or of P1 with a quantity
\* (0 when the cell is empty) and a date
FileRows ==
    {[productName |-> "", quantity |-> 9, date |-> StartDay]} \cup
    [productName : {"P1"}, quantity : {0, 9}, date : {StartDay, StartDay - 1}]

\* the upload requests: a form that fails validation, or a file
Requests ==
    {[form |-> f, parse |-> "ok", rows |-> <<>>] :
        f \in {"missingField", "malformedMapping", "noProductName"}}
    \cup {[form |-> "ok", parse |-> "throws", rows |-> <<>>]}
    \cup {[form |-> "ok", parse |-> "ok", rows |-> rows] :
             rows \in SeqsUpTo(FileRows, MaxFileRows)}

InitUpload ==
    /\ IdleProjection
    /\ InitDb
    /\ IdleStat
    /\ IdleRuns
    /\ upload_history = <<>>
    /\ invoices = <<>>
    /\ pharmacies \in {<<>>, <<[id |-> 1, name |-> "ACME"]>>}
    /\ request \in Requests
    /\ upload = NoUpload
    /\ calls = <<>>

NextUpload ==
    \/ ValidateUpload
    \/ UploadPharmacy
    \/ ParseUpload
    \/ WriteFailedHistory
    \/ CreateInvoice
    \/ InsertUploadedItem
    \/ WriteCompletedHistory
    \/ UploadDetect
    \/ UploadDbError

SpecUpload == InitUpload /\ [][NextUpload]_vars

\* the names the concurrent uploads give
PharmacyNames == {"Acme", "ACME", "acme", "Beta"}

\* uploads that reach getOrCreatePharmacy at the same time
InitPharmacy ==
    /\ IdleProjection
    /\ InitDb
    /\ IdleStat
    /\ IdleRuns
    /\ upload_history = <<>>
    /\ invoices = <<>>
    /\ pharmacies \in {<<>>, <<[id |-> 1, name |-> "ACME"]>>, <<[id |-> 1, name |-> "beta"]>>}
    /\ request = [form |-> "ok", parse |-> "ok", rows |-> <<>>]
    /\ upload = [NoUpload EXCEPT !.pc = "done"]
    /\ calls \in [Runs -> [pc : {"select"}, name : PharmacyNames, id : {0}]]

NextPharmacy ==
    \/ \E c \in Runs : SelectPharmacy(c)
    \/ \E c \in Runs : InsertPharmacy(c)

SpecPharmacy == InitPharmacy /\ [][NextPharmacy]_vars

\* two requests run detectAnomalies over the same line items
InitConcurrent ==
    /\ IdleProjection
    /\ IdleExtra
    /\ now = Midnight(StartDay)
    /\ line_items \in BagsUpTo(ItemTypes, MaxItems)
    /\ alerts = <<>>
    /\ detectRuns = 0
    /\ recommendations = <<>>
    /\ pcReorder = "idle"

NextConcurrent ==
    \/ \E r \in Runs : QuerySpikes(r)
    \/ \E r \in Runs : QueryExisting(r)
    \/ \E r \in Runs : CreateSpikeAlert(r)
    \/ AdvanceClock

SpecConcurrent == InitConcurrent /\ [][NextConcurrent]_vars

(***************************************************************************)
(* The helpers of projections.ts called on their own                       *)
(***************************************************************************)
MaxStatLen == 4

MaxWindow == 4

\* the series handed to the helpers: small values, or tens
StatSeries ==
    SeqsUpTo({1, 2, 3, 4, 5}, MaxStatLen) \cup SeqsUpTo({10, 20}, MaxStatLen)

\* smoothing factors: the default 0.3, and 0.5
StatAlphas == {JsDec(3, 10), JsDec(1, 2)}

InitStatistics ==
    /\ IdleProjection
    /\ InitDb
    /\ statData \in StatSeries
    /\ statWindow \in 1..MaxWindow
    /\ statAlpha \in StatAlphas
    /\ statResult = <<>>
    /\ pcStat = "idle"
    /\ IdleRuns
    /\ IdleUpload

NextStatistics == MovingAverageCall \/ ExponentialSmoothingCall

SpecStatistics == InitStatistics /\ [][NextStatistics]_vars

(***************************************************************************)
(* The reorder subsystem                                                   *)
(***************************************************************************)
MaxReorderItems == 4

ReorderAges == {0, 63, 64, 77, 78, 84, 85, 90, 91}

ReorderItemTypes ==
    [product_name : Products, quantity : {3},
     invoice_date : {StartDay - a : a \in ReorderAges}]

InitReorder ==
    /\ IdleProjection
    /\ IdleExtra
    /\ now \in {Midnight(StartDay), Midnight(StartDay) + 1}
    /\ line_items \in BagsUpTo(ReorderItemTypes, MaxReorderItems)
    /\ alerts = <<>>
    /\ detectRuns = 0
    /\ recommendations = <<>>
    /\ pcReorder = "idle"

NextReorder == GetReorderRecommendations

SpecReorder == InitReorder /\ [][NextReorder]_vars

MaxProducts == 22

MaxStride == 3

MaxOffset == 2

MaxTied == 3

\* the name of the k-th product of a large catalogue
ProductName(k) == "P" \o ToString(k)

\* two orders of the k-th of n products, `gap` days apart: the products 1..tied
\* were last ordered on the same day, the others `stride` days apart, the
\* higher numbers the longer ago (up) or the more recently (down)
CatalogueRows(n, k, stride, offset, tied, up) ==
    LET rank == IF up THEN k ELSE n + 1 - k
        age == stride * (IF rank <= tied THEN tied ELSE rank) + offset
    IN  {[product_name |-> ProductName(k), quantity |-> 3, invoice_date |-> StartDay - age],
         [product_name |-> ProductName(k), quantity |-> 9,
          invoice_date |-> StartDay - age - TrailingDays]}

\* products outside the demand CTE: a single order yesterday, two orders 91 days ago
SparseRows ==
    {[product_name |-> "Q1", quantity |-> 3, invoice_date |-> StartDay - 1],
     [product_name |-> "Q2", quantity |-> 3, invoice_date |-> StartDay - 91],
     [product_name |-> "Q2", quantity |-> 9, invoice_date |-> StartDay - 91]}

\* a catalogue of about ReorderLimit products that were each ordered twice
InitCatalogue ==
    /\ IdleProjection
    /\ IdleExtra
    /\ now \in {Midnight(StartDay), Midnight(StartDay) + 1}
    /\ \E n \in (ReorderLimit - 1)..MaxProducts : \E stride \in 1..MaxStride :
       \E offset \in 0..MaxOffset : \E tied \in 1..MaxTied : \E up \in BOOLEAN :
           line_items = SetToBag(SparseRows \cup
               UNION {CatalogueRows(n, k, stride, offset, tied, up) : k \in 1..n})
    /\ alerts = <<>>
    /\ detectRuns = 0
    /\ recommendations = <<>>
    /\ pcReorder = "idle"

SpecCatalogue == InitCatalogue /\ [][NextReorder]_vars

(***************************************************************************)
(* Properties of detectAnomalies                                           *)
(***************************************************************************)
\* the alerts a step has added
NewAlertIndices == (Len(alerts) + 1)..Len(alerts')

\* the steps that are a run of detectAnomalies: only a run counts in detectRuns
DetectStep == detectRuns' = detectRuns + 1

\* C4: a run creates no demand_spike alert for a product that already has one
\* created within the last 7 days, and a run that directly follows a run (same
\* line items) creates no alert at all.  A run leaves line_items and the clock
\* alone, so the run that follows it is SpikeLoop over the same rows, from alerts'.
C4_NoDuplicateAlert ==
    [][DetectStep =>
         /\ \A j \in NewAlertIndices :
                ~\E m \in 1..Len(alerts) :
                     /\ alerts[m].type = "demand_spike"
                     /\ alerts[m].product_name = alerts'[j].product_name
                     /\ alerts[m].created_at > now - 7 * TicksPerDay
         /\ \A rows \in Orders(Spikes) : SpikeLoop(rows, 1, alerts') = alerts']_vars

\* two runs over the same two rows of P1 (a spike: 18 > 1.5 * 9), one alert only
C4_Witness ==
    /\ detectRuns = 2
    /\ CurrentDate = StartDay
    /\ BagCardinality(line_items) = 2
    /\ CopiesIn([product_name |-> "P1", quantity |-> 9, invoice_date |-> StartDay - 7],
                line_items) = 2
    /\ Len(alerts) = 1
    /\ alerts[1].product_name = "P1"

C20_AlertAudit ==
    [][DetectStep =>
         \A j \in NewAlertIndices :
             LET p == alerts'[j].product_name
                 S7 == {e \in BagToSet(line_items) :
                           e.product_name = p /\ e.invoice_date >= CurrentDate - 7}
                 S30 == {e \in BagToSet(line_items) :
                           e.product_name = p /\ e.invoice_date >= CurrentDate - 30}
                 recentSum == SumQuantity(line_items, S7)
                 sum30 == SumQuantity(line_items, S30)
                 count30 == CountRows(line_items, S30)
                 threshold == alerts'[j].threshold_value
                 actual == alerts'[j].actual_value
             IN  /\ alerts'[j].type = "demand_spike"
                 /\ alerts'[j].severity = "warning"
                 /\ threshold.n * count30 = sum30 * threshold.d
                 /\ actual.n = recentSum * actual.d
                 /\ alerts'[j].message_pct =
                        (200 * (recentSum * count30 - sum30) + sum30) \div (2 * sum30)
                 /\ 2 * actual.n * threshold.d > 3 * threshold.n * actual.d
                 /\ threshold.n > 5 * threshold.d
                 /\ alerts'[j].message_pct >= 50]_vars

\* C25: after a demand_spike alert has been read or dismissed, a detectAnomalies
\* run within 7 days of the alert's creation creates no new demand_spike alert
\* for the same product, even though the spike condition still holds.
C25_HandledAlertStillCounts ==
    [][DetectStep =>
         \A j \in NewAlertIndices :
             ~\E m \in 1..Len(alerts) :
                  /\ alerts[m].type = "demand_spike"
                  /\ alerts[m].product_name = alerts'[j].product_name
                  /\ alerts[m].is_read \/ alerts[m].is_dismissed
                  /\ now - alerts[m].created_at < 7 * TicksPerDay]_vars

\* the alert of P1 was read or dismissed before the run, P1 still spikes (18 > 1.5 * 9),
\* the run is within 7 days of the alert and has left it the only alert
C25_Witness ==
    /\ detectRuns >= 1
    /\ Len(alerts) = 1
    /\ alerts[1].is_dismissed
    /\ alerts[1].product_name = "P1"
    /\ now - alerts[1].created_at = 7 * TicksPerDay - 1
    /\ CopiesIn([product_name |-> "P1", quantity |-> 9, invoice_date |-> StartDay],
                line_items) = 2
    /\ BagCardinality(line_items) = 2

\* the alerts a step has changed
ChangedAlerts == {m \in 1..Len(alerts) : m > Len(alerts') \/ alerts'[m] # alerts[m]}

\* C26: under any sequence of detect, read and dismiss actions the flags is_read
\* and is_dismissed only change from false to true; a dismissed alert is never
\* returned by getAlerts (in either mode) and a read alert never by
\* getAlerts(unreadOnly = true); read and dismiss change only the targeted alert
\* (one flag of one row) and create or delete none.
C26_AlertFlags ==
    /\ [](/\ \A m \in 1..Len(alerts) :
               /\ alerts[m].is_dismissed => (m \notin getAlerts(FALSE) /\ m \notin getAlerts(TRUE))
               /\ alerts[m].is_read => m \notin getAlerts(TRUE)
          /\ \A m \in getAlerts(TRUE) : m \in getAlerts(FALSE))
    /\ [][/\ Len(alerts') >= Len(alerts)
          /\ \A m \in 1..Len(alerts) :
                 /\ alerts[m].is_read => alerts'[m].is_read
                 /\ alerts[m].is_dismissed => alerts'[m].is_dismissed
          /\ ~DetectStep =>
                 /\ Len(alerts') = Len(alerts)
                 /\ Cardinality(ChangedAlerts) <= 1
                 /\ \A m \in ChangedAlerts :
                        \/ alerts' = [alerts EXCEPT ![m].is_read = TRUE]
                        \/ alerts' = [alerts EXCEPT ![m].is_dismissed = TRUE]]_vars

\* the first alert was read and dismissed, the second one was left alone:
\* getAlerts returns the second only
C26_Witness ==
    /\ Len(alerts) = 2
    /\ alerts[1].is_read
    /\ alerts[1].is_dismissed
    /\ getAlerts(TRUE) = {2}
    /\ getAlerts(FALSE) = {2}

\* C23: under every interleaving of concurrent detectAnomalies runs over the
\* same line items, at most one demand_spike alert per product is created
\* within any 7-day window: two such alerts are at least 7 days apart.
C23_OneAlertPerWindow ==
    \A a, b \in 1..Len(alerts) :
        (/\ a < b
         /\ alerts[a].type = "demand_spike"
         /\ alerts[b].type = "demand_spike"
         /\ alerts[a].product_name = alerts[b].product_name)
            => alerts[b].created_at - alerts[a].created_at >= 7 * TicksPerDay

(***************************************************************************)
(* Properties of getReorderRecommendations                                 *)
(***************************************************************************)
ReorderDone == pcReorder = "done"

RecommendationIndices == 1..Len(recommendations)

DaysUntilReorder(rec) == 84 - (CurrentDate - rec.last_order_date)

\* C7: urgency is 'high' iff days_until_reorder < 7, 'medium' iff
\* 7 <= days_until_reorder < 21, 'low' iff days_until_reorder >= 21.
C7_UrgencyBoundaries ==
    ReorderDone =>
        \A j \in RecommendationIndices :
            LET rec == recommendations[j]
                d == DaysUntilReorder(rec)
            IN  /\ rec.urgency = "high" <=> d < 7
                /\ rec.urgency = "medium" <=> (7 <= d /\ d < 21)
                /\ rec.urgency = "low" <=> d >= 21

\* exactly 7 days left gives 'medium', exactly 21 gives 'low'
C7_Witness ==
    /\ ReorderDone
    /\ \E j \in RecommendationIndices :
           DaysUntilReorder(recommendations[j]) = 7 /\ recommendations[j].urgency = "medium"
    /\ \E j \in RecommendationIndices :
           DaysUntilReorder(recommendations[j]) = 21 /\ recommendations[j].urgency = "low"

\* C8: estimated_reorder_date = today + max(0, 84 - days_since_last_order); it is
\* never before today and is today when days_since_last_order >= 84.
C8_ReorderDate ==
    ReorderDone =>
        \A j \in RecommendationIndices :
            LET rec == recommendations[j]
                d == DaysUntilReorder(rec)
            IN  /\ rec.estimated_reorder_date = CurrentDate + (IF d > 0 THEN d ELSE 0)
                /\ rec.estimated_reorder_date >= CurrentDate
                /\ (CurrentDate - rec.last_order_date >= 84
                        => rec.estimated_reorder_date = CurrentDate)

\* last order 85 days ago, asked in the middle of the day: reorder date is today
C8_Witness ==
    /\ ReorderDone
    /\ now = Midnight(StartDay) + 1
    /\ \E j \in RecommendationIndices :
           /\ CurrentDate - recommendations[j].last_order_date = 85
           /\ recommendations[j].estimated_reorder_date = CurrentDate

\* the number of line items of product p dated within the last 90 days
RecentOrderCount(p) ==
    LET S == {e \in BagToSet(line_items) :
                e.product_name = p /\ e.invoice_date >= CurrentDate - 90}
    IN  BagCardinality([e \in S |-> CopiesIn(e, line_items)])

\* C18: getReorderRecommendations returns a product only if it has at least 2
\* line items dated within the last 90 days; a product with 0 or 1 such line
\* items is not in the output.
C18_AtLeastTwoOrders ==
    ReorderDone =>
        \A j \in RecommendationIndices :
            RecentOrderCount(recommendations[j].product_name) >= 2

\* P1 ordered twice exactly 90 days ago is returned; P2 with one order today
\* and one 91 days ago is not
C18_Witness ==
    /\ ReorderDone
    /\ RecentOrderCount("P1") = 2
    /\ RecentOrderCount("P2") = 1
    /\ CopiesIn([product_name |-> "P2", quantity |-> 3, invoice_date |-> StartDay - 91],
                line_items) = 1
    /\ Len(recommendations) = 1
    /\ recommendations[1].product_name = "P1"
    /\ recommendations[1].last_order_date = StartDay - 90

\* the products with at least 2 line items dated within the last 90 days
Eligible == {p \in {e.product_name : e \in BagToSet(line_items)} : RecentOrderCount(p) >= 2}

\* the days since the last of those orders of product p
DaysSinceLastOrder(p) ==
    LET S == {e.invoice_date : e \in {e \in BagToSet(line_items) :
                e.product_name = p /\ e.invoice_date >= CurrentDate - 90}}
    IN  CurrentDate - (CHOOSE d \in S : \A e \in S : e <= d)

\* C19: the list getReorderRecommendations returns is ordered by non-increasing
\* days since last order and has at most 20 entries, which are the 20 eligible
\* products with the largest days since last order (all of them when they are
\* fewer than 20): no eligible product left out is more overdue than one returned.
C19_MostOverdueFirst ==
    ReorderDone =>
        LET returned == {recommendations[j].product_name : j \in RecommendationIndices}
        IN  /\ \A j \in RecommendationIndices :
                   j > 1 => CurrentDate - recommendations[j - 1].last_order_date
                              >= CurrentDate - recommendations[j].last_order_date
            /\ Len(recommendations) <= 20
            /\ Len(recommendations) =
                   (IF Cardinality(Eligible) < 20 THEN Cardinality(Eligible) ELSE 20)
            /\ Cardinality(returned) = Len(recommendations)
            /\ returned \subseteq Eligible
            /\ \A j \in RecommendationIndices :
                   CurrentDate - recommendations[j].last_order_date
                       = DaysSinceLastOrder(recommendations[j].product_name)
            /\ \A p \in Eligible \ returned : \A q \in returned :
                   DaysSinceLastOrder(p) <= DaysSinceLastOrder(q)

\* 22 eligible products, 20 returned: the two ordered most recently are left out
C19_Witness ==
    /\ ReorderDone
    /\ Cardinality(Eligible) = 22
    /\ Len(recommendations) = 20
    /\ recommendations[1].product_name = "P22"
    /\ recommendations[20].product_name = "P3"
    /\ DaysSinceLastOrder("P1") < DaysSinceLastOrder("P3")

\* C30: for an increasing arithmetic progression a, a + d, ..., a + (n - 1) * d
\* with a >= 0, d > 0 and n >= 2, the true continuation a + n * d lies within
\* [lower_bound, upper_bound] of the first projection; for 10, 20, 30, 40, 50
\* the value 60 lies inside the band.
C30_ContinuationInBand ==
    (Done /\ Len(Totals) >= 2 /\ Totals[2] > Totals[1]
          /\ \A j \in 2..Len(Totals) : Totals[j] - Totals[j - 1] = Totals[2] - Totals[1]) =>
        LET next == JsInt(Totals[Len(Totals)] + (Totals[2] - Totals[1]))
        IN  /\ JsLe(projResult.projections[1].lower_bound, next)
            /\ JsLe(next, projResult.projections[1].upper_bound)

\* 10, 20, 30, 40, 50: the projection is below 60 and the band reaches above it
C30_Witness ==
    /\ Done
    /\ Totals = <<10, 20, 30, 40, 50>>
    /\ JsLt(projResult.projections[1].projected, JsInt(60))
    /\ JsLt(JsInt(60), projResult.projections[1].upper_bound)
    /\ JsLt(projResult.projections[1].lower_bound, JsInt(60))

(***************************************************************************)
(* Properties of the helpers of projections.ts                             *)
(***************************************************************************)
\* data[a] + ... + data[b], 1-based
RECURSIVE IntSum(_, _, _)
IntSum(data, a, b) == IF a > b THEN 0 ELSE data[a] + IntSum(data, a + 1, b)

\* C21: movingAverage(data, window) has the length of data and its element i
\* (from 0) is the mean of data[max(0, i-window+1) .. i], the trailing
\* min(window, i+1) values; movingAverage([5,5,5,5], 4) = [5,5,5,5] and
\* movingAverage([1,2,3,4], 2) = [1, 1.5, 2.5, 3.5].
C21_MovingAverage ==
    pcStat = "movingAverage" =>
        /\ Len(statResult) = Len(statData)
        /\ \A i \in 0..(Len(statData) - 1) :
               LET count == IF statWindow < i + 1 THEN statWindow ELSE i + 1
               IN  JsEq(statResult[i + 1],
                        JsDec(IntSum(statData, i + 2 - count, i + 1), count))
        /\ (statData = <<5, 5, 5, 5>> /\ statWindow = 4) =>
               \A j \in 1..4 : JsEq(statResult[j], JsInt(5))
        /\ (statData = <<1, 2, 3, 4>> /\ statWindow = 2) =>
               /\ JsEq(statResult[1], JsInt(1))
               /\ JsEq(statResult[2], JsDec(3, 2))
               /\ JsEq(statResult[3], JsDec(5, 2))
               /\ JsEq(statResult[4], JsDec(7, 2))

\* movingAverage([1,2,3,4], 2) has returned, its second element 1.5
C21_Witness ==
    /\ pcStat = "movingAverage"
    /\ statData = <<1, 2, 3, 4>>
    /\ statWindow = 2
    /\ Len(statResult) = 4
    /\ JsEq(statResult[2], JsDec(3, 2))

\* C22: exponentialSmoothing(data, alpha) has the length of data (empty for
\* empty data), smoothed[0] = data[0] and
\* smoothed[i] = alpha * data[i] + (1 - alpha) * smoothed[i-1] for i >= 1;
\* with alpha = 0.3, [10, 20] yields [10, 13].
C22_ExponentialSmoothing ==
    pcStat = "exponentialSmoothing" =>
        /\ Len(statResult) = Len(statData)
        /\ Len(statData) >= 1 => JsEq(statResult[1], JsInt(statData[1]))
        /\ \A j \in 2..Len(statData) :
               JsEq(statResult[j],
                    JsAdd(JsMul(statAlpha, JsInt(statData[j])),
                          JsMul(JsSub(JsInt(1), statAlpha), statResult[j - 1])))
        /\ (statData = <<10, 20>> /\ JsEq(statAlpha, JsDec(3, 10))) =>
               JsEq(statResult[1], JsInt(10)) /\ JsEq(statResult[2], JsInt(13))

\* exponentialSmoothing([10, 20], 0.3) has returned [10, 13]
C22_Witness ==
    /\ pcStat = "exponentialSmoothing"
    /\ statData = <<10, 20>>
    /\ JsEq(statAlpha, JsDec(3, 10))
    /\ Len(statResult) = 2
    /\ JsEq(statResult[2], JsInt(13))

(***************************************************************************)
(* Properties of the upload handler                                        *)
(***************************************************************************)
\* the rows of the file that have a product name
NamedRows == {j \in 1..Len(request.rows) : request.rows[j].productName # ""}

\* the request has answered and had passed the required-field validation
Answered == upload.pc = "done" /\ upload.response # 0 /\ request.form = "ok"

\* C24: every upload request that passes the required-field validation writes
\* exactly one upload_history row, 'failed' when parsing throws, the file has no
\* data rows or no row has a product name, 'completed' otherwise; no invoice or
\* line item of the upload is persisted unless a 'completed' row is written too,
\* also when a database insert fails part-way through the invoice loop.
C24_OneHistoryRow ==
    Answered =>
        /\ Len(upload_history) = 1
        /\ upload_history[1].status =
               (IF request.parse = "throws" \/ NamedRows = {} THEN "failed" ELSE "completed")
        /\ (invoices # <<>> \/ line_items # EmptyBag) =>
               \E j \in 1..Len(upload_history) : upload_history[j].status = "completed"

\* C27: in the upload handler detectAnomalies is invoked only after all invoices
\* and line items of the upload and its 'completed' upload_history row have been
\* written; if detectAnomalies throws, the handler still returns the success
\* response and the invoices, line items and history row stay as they were.
C27_DetectAfterPersist ==
    /\ [](upload.pc = "detect" =>
            /\ Len(upload_history) = 1
            /\ upload_history[1].status = "completed"
            /\ Len(invoices) = Cardinality({request.rows[j].date : j \in NamedRows})
            /\ BagCardinality(line_items) = Cardinality(NamedRows))
    /\ [][/\ (alerts' # alerts \/ detectRuns' # detectRuns \/ upload'.threw)
                 => upload.pc = "detect"
          /\ upload.pc = "detect" =>
                 /\ upload'.pc = "done"
                 /\ upload'.response = 200
                 /\ invoices' = invoices
                 /\ line_items' = line_items
                 /\ upload_history' = upload_history]_vars

\* three rows of P1 on two dates were stored, detectAnomalies threw, the answer is 200
C27_Witness ==
    /\ upload.pc = "done"
    /\ upload.threw
    /\ upload.response = 200
    /\ Len(invoices) = 2
    /\ BagCardinality(line_items) = 3
    /\ Len(upload_history) = 1
    /\ upload_history[1].status = "completed"

\* C28: under every interleaving of concurrent getOrCreatePharmacy calls with
\* names that are equal ignoring case, at most one pharmacy row with that
\* (case-insensitive) name exists afterwards and all calls return the same id.
C28_OnePharmacyPerName ==
    (\A c \in DOMAIN calls : calls[c].pc = "done") =>
        /\ \A a, b \in 1..Len(pharmacies) :
               Lower(pharmacies[a].name) = Lower(pharmacies[b].name) => a = b
        /\ \A c, d \in DOMAIN calls :
               Lower(calls[c].name) = Lower(calls[d].name) => calls[c].id = calls[d].id

\* C29: urgency is monotone along the list getReorderRecommendations returns: no
\* 'low' entry precedes a 'medium' or 'high' entry and no 'medium' entry
\* precedes a 'high' entry.
C29_UrgencyMonotone ==
    ReorderDone =>
        \A i, j \in RecommendationIndices :
            i < j =>
                /\ recommendations[i].urgency = "low" => recommendations[j].urgency = "low"
                /\ recommendations[i].urgency = "medium" => recommendations[j].urgency # "high"

\* a product last ordered 78 days ago ('high') before one ordered 63 days ago ('low')
C29_Witness ==
    /\ ReorderDone
    /\ Len(recommendations) = 2
    /\ recommendations[1].urgency = "high"
    /\ recommendations[1].last_order_date = StartDay - 78
    /\ recommendations[2].urgency = "low"
    /\ recommendations[2].last_order_date = StartDay - 63

=============================================================================
